---- MODULE Spec2Model ----
(***************************************************************************)
(* Model of the portfolio dashboard: the P&L analytics of                  *)
(* src/modules/pnl_calculator.py (get_exchange_rate_for_currency,          *)
(* calculate_pnl, calculate_portfolio_pnl, calculate_portfolio_summary,    *)
(* calculate_sector_allocation, calculate_performance_metrics,             *)
(* calculate_position_sizing_analysis), the country classification of      *)
(* src/modules/country_fetcher.py, and of src/app.py the session of        *)
(* main_dashboard and the risk-analysis run display_risk_analysis.         *)
(*                                                                         *)
(* A behaviour is either one call of a function: the function called (fn), *)
(* the arguments it is given (args, the caller's objects), whether it has  *)
(* returned (pc) and the value it returned (ret); or the reruns of         *)
(* main_dashboard over one session (session_state); or one run of          *)
(* display_risk_analysis, step by step (locals).  The inputs are drawn in  *)
(* Init.                                                                   *)
(*                                                                         *)
(* Numbers are exact rationals [k |-> "num", n, d] in lowest terms (d > 0);*)
(* Python's None is the value None; NaN and the infinities of a division   *)
(* by zero are values of their own.  Floating-point rounding is outside    *)
(* the model.                                                              *)
(***************************************************************************)
EXTENDS Integers, Sequences, FiniteSets, TLC

VARIABLES fn, args, pc, ret, session_state, locals

vars == <<fn, args, pc, ret, session_state, locals>>

(***************************************************************************)
(* Python values: numbers and None                                         *)
(***************************************************************************)
Abs(i) == IF i < 0 THEN -i ELSE i

RECURSIVE GCD(_, _)
GCD(a, b) == IF b = 0 THEN a ELSE GCD(b, a % b)

\* the rational n/d (d > 0) in lowest terms
Norm(n, d) ==
    LET g == GCD(Abs(n), d)
    IN  [k |-> "num", n |-> n \div g, d |-> d \div g]

Num(i) == Norm(i, 1)

None == [k |-> "None", n |-> 0, d |-> 1]

IsNumeric(x) == x.k = "num"

\* x * y (common factors are cancelled before multiplying)
Mul(x, y) ==
    LET g1 == GCD(Abs(x.n), y.d)
        g2 == GCD(Abs(y.n), x.d)
    IN  Norm((x.n \div g1) * (y.n \div g2), (x.d \div g2) * (y.d \div g1))

\* x + y
Add(x, y) == Norm(x.n * y.d + y.n * x.d, x.d * y.d)

\* x - y
Sub(x, y) == Norm(x.n * y.d - y.n * x.d, x.d * y.d)

\* -x
Neg(x) == Norm(-x.n, x.d)

\* x / y, for y # 0 (every division of the source is guarded by its divisor being > 0)
Div(x, y) ==
    Mul(x, IF y.n > 0 THEN [k |-> "num", n |-> y.d, d |-> y.n]
                      ELSE [k |-> "num", n |-> -y.d, d |-> -y.n])

\* no value yet (a call that has not returned, a local not yet assigned)
NoValue == [k |-> "none"]

\* x > y
Gt(x, y) == x.n * y.d > y.n * x.d

Zero == Num(0)

Hundred == Num(100)

\* float('nan'), the value pandas gives the maximum of an empty column and 0/0
NaN == [k |-> "nan", n |-> 0, d |-> 1]

\* pd.DataFrame(rows): a table of records; built from no rows it has no columns
DataFrame(rows) ==
    [columns |-> IF Len(rows) = 0 THEN {} ELSE DOMAIN rows[1], rows |-> rows]

(***************************************************************************)
(* calculate_pnl (pnl_calculator.py:14-79)                                 *)
(***************************************************************************)

\* the body of the try block raises TypeError at line 36 when the price or
\* the rate is not a number (None * float)
PnlRaises(current_price_local, exchange_rate) ==
    ~IsNumeric(current_price_local) \/ ~IsNumeric(exchange_rate)

\* variant of PnlPercentage: the percentage is left as a fraction (no * 100)
PnlPercentage_Fraction(pnl_amount, cost_basis_jpy) ==
    IF Gt(cost_basis_jpy, Zero)
    THEN Div(pnl_amount, cost_basis_jpy)
    ELSE Zero

\* variant of PnlPercentage: a zero cost basis is reported as a total loss
PnlPercentage_ZeroCostTotalLoss(pnl_amount, cost_basis_jpy) ==
    IF Gt(cost_basis_jpy, Zero)
    THEN Mul(Div(pnl_amount, cost_basis_jpy), Hundred)
    ELSE Neg(Hundred)

\* line 48: (pnl_amount / cost_basis_jpy) * 100 if cost_basis_jpy > 0 else 0
PnlPercentage(pnl_amount, cost_basis_jpy) ==
    IF Gt(cost_basis_jpy, Zero)
    THEN Mul(Div(pnl_amount, cost_basis_jpy), Hundred)
    ELSE Zero

\* variant of PnlTry: the cost basis is converted with the exchange rate
PnlTry_CostConverted(ticker, shares, avg_cost_jpy, current_price_local, exchange_rate) ==
    LET current_price_jpy == Mul(current_price_local, exchange_rate)
        current_value_jpy == Mul(current_price_jpy, shares)
        cost_basis_jpy    == Mul(Mul(avg_cost_jpy, exchange_rate), shares)
        pnl_amount        == Sub(current_value_jpy, cost_basis_jpy)
        pnl_percentage    == IF Gt(cost_basis_jpy, Zero)
                             THEN Mul(Div(pnl_amount, cost_basis_jpy), Hundred)
                             ELSE Zero
    IN  [ticker              |-> ticker,
         shares              |-> shares,
         avg_cost_jpy        |-> avg_cost_jpy,
         current_price_local |-> current_price_local,
         current_price_jpy   |-> current_price_jpy,
         exchange_rate       |-> exchange_rate,
         current_value_jpy   |-> current_value_jpy,
         cost_basis_jpy      |-> cost_basis_jpy,
         pnl_amount          |-> pnl_amount,
         pnl_percentage      |-> pnl_percentage]

\* lines 35-64: the record built by the try block
PnlTry(ticker, shares, avg_cost_jpy, current_price_local, exchange_rate) ==
    LET current_price_jpy == Mul(current_price_local, exchange_rate)
        current_value_jpy == Mul(current_price_jpy, shares)
        cost_basis_jpy    == Mul(avg_cost_jpy, shares)
        pnl_amount        == Sub(current_value_jpy, cost_basis_jpy)
        pnl_percentage    == PnlPercentage(pnl_amount, cost_basis_jpy)
    IN  [ticker              |-> ticker,
         shares              |-> shares,
         avg_cost_jpy        |-> avg_cost_jpy,
         current_price_local |-> current_price_local,
         current_price_jpy   |-> current_price_jpy,
         exchange_rate       |-> exchange_rate,
         current_value_jpy   |-> current_value_jpy,
         cost_basis_jpy      |-> cost_basis_jpy,
         pnl_amount          |-> pnl_amount,
         pnl_percentage      |-> pnl_percentage]

\* lines 66-79: the record returned by the except block
PnlExcept(ticker, shares, avg_cost_jpy, current_price_local, exchange_rate) ==
    [ticker              |-> ticker,
     shares              |-> shares,
     avg_cost_jpy        |-> avg_cost_jpy,
     current_price_local |-> Zero,
     current_price_jpy   |-> Zero,
     exchange_rate       |-> exchange_rate,
     current_value_jpy   |-> Zero,
     cost_basis_jpy      |-> Mul(avg_cost_jpy, shares),
     pnl_amount          |-> Neg(Mul(avg_cost_jpy, shares)),
     pnl_percentage      |-> Neg(Hundred)]

\* variant of calculate_pnl: no except block, the TypeError reaches the caller
calculate_pnl_NoExcept(ticker, shares, avg_cost_jpy, current_price_local, exchange_rate) ==
    IF ~IsNumeric(current_price_local) \/ ~IsNumeric(exchange_rate)
    THEN [k |-> "raised"]
    ELSE [ticker              |-> ticker,
          shares              |-> shares,
          avg_cost_jpy        |-> avg_cost_jpy,
          current_price_local |-> current_price_local,
          current_price_jpy   |-> Mul(current_price_local, exchange_rate),
          exchange_rate       |-> exchange_rate,
          current_value_jpy   |-> Mul(Mul(current_price_local, exchange_rate), shares),
          cost_basis_jpy      |-> Mul(avg_cost_jpy, shares),
          pnl_amount          |-> Sub(Mul(Mul(current_price_local, exchange_rate), shares),
                                      Mul(avg_cost_jpy, shares)),
          pnl_percentage      |->
              IF Gt(Mul(avg_cost_jpy, shares), Zero)
              THEN Mul(Div(Sub(Mul(Mul(current_price_local, exchange_rate), shares),
                               Mul(avg_cost_jpy, shares)),
                           Mul(avg_cost_jpy, shares)), Hundred)
              ELSE Zero]

calculate_pnl(ticker, shares, avg_cost_jpy, current_price_local, exchange_rate) ==
    IF PnlRaises(current_price_local, exchange_rate)
    THEN PnlExcept(ticker, shares, avg_cost_jpy, current_price_local, exchange_rate)
    ELSE PnlTry(ticker, shares, avg_cost_jpy, current_price_local, exchange_rate)

(***************************************************************************)
(* get_exchange_rate_for_currency (pnl_calculator.py:135-176)              *)
(***************************************************************************)

\* lines 149-156
rate_mapping ==
    [c \in {"USD", "EUR", "GBP", "AUD", "CAD", "CHF"} |-> c \o "JPY=X"]

\* lines 163-174
fallback_rates ==
    [c \in {"USD", "EUR", "GBP", "AUD", "CAD", "CHF", "HKD", "SGD", "CNY", "KRW"} |->
        CASE c = "USD" -> Num(150)
          [] c = "EUR" -> Num(160)
          [] c = "GBP" -> Num(180)
          [] c = "AUD" -> Num(100)
          [] c = "CAD" -> Num(110)
          [] c = "CHF" -> Num(165)
          [] c = "HKD" -> Num(19)
          [] c = "SGD" -> Num(110)
          [] c = "CNY" -> Num(21)
          [] c = "KRW" -> Norm(11, 100)]

\* variant of get_exchange_rate_for_currency: an unlisted currency gets rate 0
get_exchange_rate_for_currency_ZeroDefault(currency, exchange_rates) ==
    IF currency = "JPY"
    THEN Num(1)
    ELSE IF currency \in DOMAIN rate_mapping
            /\ rate_mapping[currency] \in DOMAIN exchange_rates
         THEN exchange_rates[rate_mapping[currency]]
         ELSE IF currency \in DOMAIN fallback_rates
              THEN fallback_rates[currency]
              ELSE Num(0)

\* variant of get_exchange_rate_for_currency: the fetched table is ignored
get_exchange_rate_for_currency_FallbackOnly(currency, exchange_rates) ==
    IF currency = "JPY" THEN Num(1)
    ELSE IF currency \in DOMAIN fallback_rates THEN fallback_rates[currency]
    ELSE Num(1)

get_exchange_rate_for_currency(currency, exchange_rates) ==
    IF currency = "JPY"
    THEN Num(1)
    ELSE IF currency \in DOMAIN rate_mapping
            /\ rate_mapping[currency] \in DOMAIN exchange_rates
         THEN exchange_rates[rate_mapping[currency]]
         ELSE IF currency \in DOMAIN fallback_rates
              THEN fallback_rates[currency]
              ELSE Num(1)

(***************************************************************************)
(* Inputs                                                                  *)
(***************************************************************************)
Tickers == {"AAPL", "7203.T"}

\* share counts (positive) and average costs in JPY (non-negative)
SharesValues == {Num(1), Num(2), Num(100)}

AvgCosts == {Num(0), Num(100), Num(15000)}

\* local prices handed to calculate_pnl: a quote, 0 (missing quote) or None
LocalPrices == {None, Num(0), Num(2), Num(190)}

\* exchange rates handed to calculate_pnl
Rates == {None, Num(1), Num(150), Norm(11, 100)}

Currencies ==
    {"JPY", "USD", "EUR", "GBP", "AUD", "CAD", "CHF", "HKD", "SGD", "CNY", "KRW", "BRL"}

\* the home-per-unit-foreign pair symbol of a currency
PairSymbol(c) == c \o "JPY=X"

FxSymbols == {PairSymbol(c) : c \in Currencies \ {"JPY"}}

\* rates a live FX table may hold (none equals a fallback rate)
LiveRates == {Num(155), Norm(39, 2)}

MaxFxEntries == 1

FxTables ==
    UNION {[P -> LiveRates] :
             P \in {Q \in SUBSET FxSymbols : Cardinality(Q) <= MaxFxEntries}}

(***************************************************************************)
(* calculate_portfolio_pnl (pnl_calculator.py:82-132)                      *)
(***************************************************************************)

\* dict.get(key, default)
DictGet(dict, key, default) == IF key \in DOMAIN dict THEN dict[key] ELSE default

\* lines 103-126: the record appended for one row of portfolio_df
PnlRow(row, current_prices, exchange_rates, currency_mapping) ==
    LET ticker              == row.Ticker
        shares              == row.Shares
        avg_cost_jpy        == row.AvgCostJPY
        current_price_local == DictGet(current_prices, ticker, Zero)
        currency            == DictGet(currency_mapping, ticker, "USD")
        exchange_rate       == get_exchange_rate_for_currency(currency, exchange_rates)
        pnl_data            == calculate_pnl(ticker, shares, avg_cost_jpy,
                                             current_price_local, exchange_rate)
    IN  [ticker              |-> pnl_data.ticker,
         shares              |-> pnl_data.shares,
         avg_cost_jpy        |-> pnl_data.avg_cost_jpy,
         current_price_local |-> pnl_data.current_price_local,
         current_price_jpy   |-> pnl_data.current_price_jpy,
         exchange_rate       |-> pnl_data.exchange_rate,
         current_value_jpy   |-> pnl_data.current_value_jpy,
         cost_basis_jpy      |-> pnl_data.cost_basis_jpy,
         pnl_amount          |-> pnl_data.pnl_amount,
         pnl_percentage      |-> pnl_data.pnl_percentage,
         currency            |-> currency]

\* variant of calculate_portfolio_pnl: a position without a quote is skipped
calculate_portfolio_pnl_SkipUnquoted(portfolio_df, current_prices, exchange_rates, currency_mapping) ==
    LET quoted == SelectSeq(portfolio_df, LAMBDA row : row.Ticker \in DOMAIN current_prices)
    IN  DataFrame([i \in 1..Len(quoted) |->
            PnlRow(quoted[i], current_prices, exchange_rates, currency_mapping)])

\* the table of results, one row per row of portfolio_df, in its order
calculate_portfolio_pnl(portfolio_df, current_prices, exchange_rates, currency_mapping) ==
    DataFrame([i \in 1..Len(portfolio_df) |->
        PnlRow(portfolio_df[i], current_prices, exchange_rates, currency_mapping)])

(***************************************************************************)
(* calculate_portfolio_summary (pnl_calculator.py:179-234)                 *)
(***************************************************************************)

\* variant of ColumnSum: the first row is left out of the sum
RECURSIVE ColumnSum_SkipFirst(_, _, _)
ColumnSum_SkipFirst(df, col, n) ==
    IF n <= 1 THEN Zero ELSE Add(ColumnSum_SkipFirst(df, col, n - 1), df[n][col])

\* Series.sum(): the sum of column col over the first n rows
RECURSIVE ColumnSum(_, _, _)
ColumnSum(df, col, n) ==
    IF n = 0 THEN Zero ELSE Add(ColumnSum(df, col, n - 1), df[n][col])

\* variant of CountPositive: a row at exactly 0 counts as profitable (>= 0)
RECURSIVE CountPositive_NonNegative(_, _, _)
CountPositive_NonNegative(df, col, n) ==
    IF n = 0 THEN 0
    ELSE CountPositive_NonNegative(df, col, n - 1)
         + (IF Gt(Zero, df[n][col]) THEN 0 ELSE 1)

\* (Series > 0).sum(): the number of the first n rows whose col is > 0
RECURSIVE CountPositive(_, _, _)
CountPositive(df, col, n) ==
    IF n = 0 THEN 0
    ELSE CountPositive(df, col, n - 1) + (IF Gt(df[n][col], Zero) THEN 1 ELSE 0)

\* variant of IdxMax: among equal maxima the last row wins
RECURSIVE IdxMax_LastTie(_, _, _)
IdxMax_LastTie(df, col, n) ==
    IF n = 1 THEN 1
    ELSE LET best == IdxMax_LastTie(df, col, n - 1)
         IN  IF Gt(df[best][col], df[n][col]) THEN best ELSE n

\* Series.idxmax() over the first n >= 1 rows: the first row holding the maximum
RECURSIVE IdxMax(_, _, _)
IdxMax(df, col, n) ==
    IF n = 1 THEN 1
    ELSE LET best == IdxMax(df, col, n - 1)
         IN  IF Gt(df[n][col], df[best][col]) THEN n ELSE best

\* Series.idxmin() over the first n >= 1 rows: the first row holding the minimum
RECURSIVE IdxMin(_, _, _)
IdxMin(df, col, n) ==
    IF n = 1 THEN 1
    ELSE LET best == IdxMin(df, col, n - 1)
         IN  IF Gt(df[best][col], df[n][col]) THEN n ELSE best

\* line 234: the {} returned by the except block
EmptySummary == [k |-> "empty_dict"]

\* variant of OverallPnlPercentage: the percentage is left as a fraction (no * 100)
OverallPnlPercentage_Fraction(total_pnl_amount, total_cost_basis) ==
    IF Gt(total_cost_basis, Zero)
    THEN Div(total_pnl_amount, total_cost_basis)
    ELSE Zero

\* line 194: (total_pnl_amount / total_cost_basis) * 100 if total_cost_basis > 0 else 0
OverallPnlPercentage(total_pnl_amount, total_cost_basis) ==
    IF Gt(total_cost_basis, Zero)
    THEN Mul(Div(total_pnl_amount, total_cost_basis), Hundred)
    ELSE Zero

\* line 226: total_cost_basis / total_positions if total_positions > 0 else 0
AveragePositionSize(total_cost_basis, total_positions) ==
    IF total_positions > 0
    THEN Div(total_cost_basis, Num(total_positions))
    ELSE Zero

\* the columns calculate_portfolio_summary reads (lines 190-209)
SummaryColumns ==
    {"cost_basis_jpy", "current_value_jpy", "pnl_amount", "pnl_percentage", "ticker"}

\* the columns read for a given table: 'ticker' is read at lines 208-209 only
\* when the table has rows (`... if not pnl_df.empty else ''`)
SummaryColumnsRead(pnl_df) ==
    IF Len(pnl_df.rows) = 0 \/ pnl_df.columns = {}
    THEN SummaryColumns \ {"ticker"}
    ELSE SummaryColumns

\* lines 190-230: the summary of a table that has the columns read; the
\* maximum and minimum of an empty column are NaN, and lines 208-209 give ''
\* for the tickers of an empty table
SummaryOf(pnl_df) ==
    LET rows                 == pnl_df.rows
        total_positions      == Len(rows)
        total_cost_basis     == ColumnSum(rows, "cost_basis_jpy", total_positions)
        total_current_value  == ColumnSum(rows, "current_value_jpy", total_positions)
        total_pnl_amount     == ColumnSum(rows, "pnl_amount", total_positions)
        profitable_positions == CountPositive(rows, "pnl_amount", total_positions)
        empty                == total_positions = 0
    IN  [total_positions         |-> total_positions,
         total_cost_basis_jpy    |-> total_cost_basis,
         total_current_value_jpy |-> total_current_value,
         total_pnl_amount_jpy    |-> total_pnl_amount,
         overall_pnl_percentage  |->
             OverallPnlPercentage(total_pnl_amount, total_cost_basis),
         win_rate                |->
             IF total_positions > 0
             THEN Mul(Div(Num(profitable_positions), Num(total_positions)), Hundred)
             ELSE Zero,
         profitable_positions    |-> profitable_positions,
         losing_positions        |-> total_positions - profitable_positions,
         max_gain_amount         |->
             IF empty THEN NaN
             ELSE rows[IdxMax(rows, "pnl_amount", total_positions)].pnl_amount,
         max_loss_amount         |->
             IF empty THEN NaN
             ELSE rows[IdxMin(rows, "pnl_amount", total_positions)].pnl_amount,
         max_gain_percentage     |->
             IF empty THEN NaN
             ELSE rows[IdxMax(rows, "pnl_percentage", total_positions)].pnl_percentage,
         max_loss_percentage     |->
             IF empty THEN NaN
             ELSE rows[IdxMin(rows, "pnl_percentage", total_positions)].pnl_percentage,
         max_gain_ticker         |->
             IF empty THEN ""
             ELSE rows[IdxMax(rows, "pnl_amount", total_positions)].ticker,
         max_loss_ticker         |->
             IF empty THEN ""
             ELSE rows[IdxMin(rows, "pnl_amount", total_positions)].ticker,
         average_position_size   |->
             AveragePositionSize(total_cost_basis, total_positions)]

\* variant of calculate_portfolio_summary: no except block, the KeyError of a
\* table without columns reaches the caller
calculate_portfolio_summary_NoExcept(pnl_df) ==
    IF SummaryColumnsRead(pnl_df) \subseteq pnl_df.columns
    THEN SummaryOf(pnl_df)
    ELSE [k |-> "raised"]

\* a table without a column that is read raises KeyError (lines 190-209) and
\* the except block returns {}
calculate_portfolio_summary(pnl_df) ==
    IF SummaryColumnsRead(pnl_df) \subseteq pnl_df.columns
    THEN SummaryOf(pnl_df)
    ELSE EmptySummary

(***************************************************************************)
(* classify_region_by_country (country_fetcher.py:66-119)                  *)
(*                                                                         *)
(* A country string is [k |-> "str", text, case, pad]: text is its content *)
(* in upper case without surrounding whitespace, case tells how its        *)
(* letters are written ("upper", "title" or "lower") and pad whether       *)
(* whitespace surrounds it.  Two strings are equal when all three agree.   *)
(* The regions are written in English: "Japan" is '日本', "US" '米国',      *)
(* "Europe" '欧州', "Asia-Pacific" 'アジア太平洋', "North America-other"     *)
(* '北米（その他）' and "Other" 'その他'.                                     *)
(***************************************************************************)
Str(text, case, pad) == [k |-> "str", text |-> text, case |-> case, pad |-> pad]

\* a string literal of the source, written in upper case
Literal(text) == Str(text, "upper", FALSE)

\* str.upper()
Upper(s) == [s EXCEPT !.case = "upper"]

\* str.strip()
Strip(s) == [s EXCEPT !.pad = FALSE]

\* `not country`: None and the empty string are falsy
Falsy(country) == country.k = "None" \/ country = Literal("")

Regions == {"Japan", "US", "Europe", "Asia-Pacific", "North America-other", "Other"}

\* lines 90-98
european_countries ==
    {"GERMANY", "FRANCE", "UNITED KINGDOM", "UK", "GREAT BRITAIN",
     "ITALY", "SPAIN", "NETHERLANDS", "SWITZERLAND", "SWEDEN",
     "NORWAY", "DENMARK", "FINLAND", "BELGIUM", "AUSTRIA",
     "IRELAND", "PORTUGAL", "LUXEMBOURG", "GREECE", "POLAND",
     "CZECH REPUBLIC", "HUNGARY", "SLOVAKIA", "SLOVENIA",
     "CROATIA", "ROMANIA", "BULGARIA", "ESTONIA", "LATVIA",
     "LITHUANIA", "MALTA", "CYPRUS"}

\* lines 104-109
asia_pacific_countries ==
    {"CHINA", "SOUTH KOREA", "KOREA", "TAIWAN", "HONG KONG",
     "SINGAPORE", "MALAYSIA", "THAILAND", "INDONESIA",
     "PHILIPPINES", "VIETNAM", "INDIA", "AUSTRALIA",
     "NEW ZEALAND"}

\* `country in [...]`: the string equals one of the upper-case literals
InList(country, names) == \E name \in names : country = Literal(name)

\* lines 79-119, for a string that is not falsy
ClassifyNormalised(country) ==
    IF InList(country, {"JAPAN"}) THEN "Japan"
    ELSE IF InList(country, {"UNITED STATES", "USA", "US"}) THEN "US"
    ELSE IF InList(country, european_countries) THEN "Europe"
    ELSE IF InList(country, asia_pacific_countries) THEN "Asia-Pacific"
    ELSE IF InList(country, {"CANADA"}) THEN "North America-other"
    ELSE "Other"

\* variant of classify_region_by_country: the name is compared as written (no upper())
classify_region_by_country_NoUpper(country) ==
    IF Falsy(country) THEN "Other" ELSE ClassifyNormalised(Strip(country))

classify_region_by_country(country) ==
    IF Falsy(country) THEN "Other" ELSE ClassifyNormalised(Strip(Upper(country)))

(***************************************************************************)
(* calculate_sector_allocation (pnl_calculator.py:237-298)                 *)
(***************************************************************************)

\* the characters of a ticker symbol
TickerChars(ticker) ==
    CASE ticker = "AAPL"    -> <<"A", "A", "P", "L">>
      [] ticker = "7203.T"  -> <<"7", "2", "0", "3", ".", "T">>
      [] ticker = "6758.T"  -> <<"6", "7", "5", "8", ".", "T">>
      [] ticker = "ASML.AS" -> <<"A", "S", "M", "L", ".", "A", "S">>
      [] ticker = "MC.PA"   -> <<"M", "C", ".", "P", "A">>
      [] ticker = "SAP.DE"  -> <<"S", "A", "P", ".", "D", "E">>
      [] ticker = "ENI.MI"  -> <<"E", "N", "I", ".", "M", "I">>
      [] ticker = "HSBA.L"  -> <<"H", "S", "B", "A", ".", "L">>
      [] ticker = "RY.TO"   -> <<"R", "Y", ".", "T", "O">>
      [] ticker = "NVO.V"   -> <<"N", "V", "O", ".", "V">>
      [] ticker = "BHP.AX"  -> <<"B", "H", "P", ".", "A", "X">>
      [] ticker = "0700.HK" -> <<"0", "7", "0", "0", ".", "H", "K">>

\* `pattern in ticker`: the pattern occurs somewhere in the ticker
Contains(ticker, pattern) ==
    LET chars == TickerChars(ticker)
    IN  \E i \in 1..(Len(chars) - Len(pattern) + 1) :
            SubSeq(chars, i, i + Len(pattern) - 1) = pattern

\* lines 258-269: the fallback on the ticker's suffix
SuffixRegion(ticker) ==
    IF Contains(ticker, <<".", "T">>) \/ Contains(ticker, <<".", "J", "P">>)
    THEN "Japan"
    ELSE IF \/ Contains(ticker, <<".", "A", "S">>) \/ Contains(ticker, <<".", "P", "A">>)
            \/ Contains(ticker, <<".", "D", "E">>) \/ Contains(ticker, <<".", "M", "I">>)
            \/ Contains(ticker, <<".", "L">>)
    THEN "Europe"
    ELSE IF Contains(ticker, <<".", "T", "O">>) \/ Contains(ticker, <<".", "V">>)
    THEN "North America-other"
    ELSE IF Contains(ticker, <<".", "A", "X">>)
    THEN "Asia-Pacific"
    ELSE IF Contains(ticker, <<".", "H", "K">>)
    THEN "Asia-Pacific"
    ELSE "US"

\* ticker_countries: a dict from tickers to a country or None, or no dict (None)
Dict(items) == [k |-> "dict", items |-> items]

NoDict == [k |-> "None", items |-> <<>>]

\* line 253: ticker_countries and ticker in ticker_countries
HasEntry(ticker_countries, ticker) ==
    /\ ticker_countries.k = "dict"
    /\ DOMAIN ticker_countries.items # {}
    /\ ticker \in DOMAIN ticker_countries.items

\* lines 252-269
get_region_for_ticker(ticker, ticker_countries) ==
    IF HasEntry(ticker_countries, ticker)
    THEN classify_region_by_country(ticker_countries.items[ticker])
    ELSE SuffixRegion(ticker)

\* float('inf') and float('-inf'): n is the sign
Inf(sign) == [k |-> "inf", n |-> sign, d |-> 1]

\* Series / Series: pandas divides by 0 without raising, giving nan for 0/0
\* and a signed infinity otherwise
SeriesDiv(x, y) ==
    IF y # Zero THEN Div(x, y)
    ELSE IF x = Zero THEN NaN
    ELSE Inf(IF x.n > 0 THEN 1 ELSE -1)

\* Series * 100
SeriesTimes100(x) == IF IsNumeric(x) THEN Mul(x, Hundred) ELSE x

\* Series.fillna(0): nan becomes 0, an infinity stays
FillNa0(x) == IF x.k = "nan" THEN Zero ELSE x

\* lines 290-292
RegionPnlPercentage(pnl_amount, cost_basis_jpy) ==
    FillNa0(SeriesTimes100(SeriesDiv(pnl_amount, cost_basis_jpy)))

\* variant of AllocationPercentage: the division is not guarded by total_value > 0
AllocationPercentage_Unguarded(current_value_jpy, total_value) ==
    SeriesTimes100(SeriesDiv(current_value_jpy, total_value))

\* variant of AllocationPercentage: the share is left as a fraction (no * 100)
AllocationPercentage_Fraction(current_value_jpy, total_value) ==
    IF Gt(total_value, Zero)
    THEN Div(current_value_jpy, total_value)
    ELSE Zero

\* lines 285-287
AllocationPercentage(current_value_jpy, total_value) ==
    IF Gt(total_value, Zero)
    THEN Mul(Div(current_value_jpy, total_value), Hundred)
    ELSE Zero

\* variant of GroupSum: every row is added to every region
RECURSIVE GroupSum_AllRows(_, _, _, _, _)
GroupSum_AllRows(rows, regions, region, col, n) ==
    IF n = 0 THEN Zero
    ELSE Add(GroupSum_AllRows(rows, regions, region, col, n - 1), rows[n][col])

\* groupby('country')[col].sum(): the sum of col over the rows of one region
RECURSIVE GroupSum(_, _, _, _, _)
GroupSum(rows, regions, region, col, n) ==
    IF n = 0 THEN Zero
    ELSE Add(GroupSum(rows, regions, region, col, n - 1),
             IF regions[n] = region THEN rows[n][col] ELSE Zero)

\* groupby('country')['ticker'].count(): the number of rows of one region
GroupCount(regions, region) ==
    Cardinality({i \in DOMAIN regions : regions[i] = region})

\* groupby sorts its keys: the regions in the order of their names in the source
RegionOrder ==
    <<"Other", "Asia-Pacific", "North America-other", "Japan", "Europe", "US">>

\* the columns calculate_sector_allocation reads (lines 273-281)
AllocationInputColumns ==
    {"ticker", "current_value_jpy", "cost_basis_jpy", "pnl_amount"}

\* the columns of the table returned (lines 276-294)
AllocationColumns ==
    {"country", "current_value_jpy", "cost_basis_jpy", "pnl_amount",
     "position_count", "allocation_percentage", "pnl_percentage"}

\* lines 272-294
SectorAllocationOf(pnl_df, ticker_countries) ==
    LET rows    == pnl_df.rows
        regions == [i \in 1..Len(rows) |->
                      get_region_for_ticker(rows[i].ticker, ticker_countries)]
        present(r) == \E i \in 1..Len(rows) : regions[i] = r
        groups  == SelectSeq(RegionOrder, present)
        sum(r, col) == GroupSum(rows, regions, r, col, Len(rows))
        sector_allocation ==
            [g \in 1..Len(groups) |->
                [country           |-> groups[g],
                 current_value_jpy |-> sum(groups[g], "current_value_jpy"),
                 cost_basis_jpy    |-> sum(groups[g], "cost_basis_jpy"),
                 pnl_amount        |-> sum(groups[g], "pnl_amount"),
                 position_count    |-> GroupCount(regions, groups[g])]]
        total_value ==
            ColumnSum(sector_allocation, "current_value_jpy", Len(groups))
    IN  [columns |-> AllocationColumns,
         rows    |-> [g \in 1..Len(groups) |->
            [country               |-> sector_allocation[g].country,
             current_value_jpy     |-> sector_allocation[g].current_value_jpy,
             cost_basis_jpy        |-> sector_allocation[g].cost_basis_jpy,
             pnl_amount            |-> sector_allocation[g].pnl_amount,
             position_count        |-> sector_allocation[g].position_count,
             allocation_percentage |->
                 AllocationPercentage(sector_allocation[g].current_value_jpy, total_value),
             pnl_percentage        |->
                 RegionPnlPercentage(sector_allocation[g].pnl_amount,
                                     sector_allocation[g].cost_basis_jpy)]]]

\* a table without the columns raises KeyError at line 273 and the except
\* block returns an empty DataFrame (lines 296-298)
calculate_sector_allocation(pnl_df, ticker_countries) ==
    IF AllocationInputColumns \subseteq pnl_df.columns
    THEN SectorAllocationOf(pnl_df, ticker_countries)
    ELSE DataFrame(<<>>)

(***************************************************************************)
(* Names and objects.  A Python name refers to an object: `x = ...` binds   *)
(* the name to another object, `x[k] = ...` and `x.append(...)` change the  *)
(* object the name refers to, whoever else refers to it.  A frame is the    *)
(* objects that exist during a call (store) and the object each name of     *)
(* the function refers to (env).  The parameters refer to the caller's      *)
(* objects.                                                                *)
(***************************************************************************)

\* the object the caller passes for a parameter
CallerObject(name) == <<"caller", name, 0>>

\* the frame at the entry of a function called with the arguments
Enter(arguments) ==
    [store |-> [id \in {CallerObject(n) : n \in DOMAIN arguments} |-> arguments[id[2]]],
     env   |-> [n \in DOMAIN arguments |-> CallerObject(n)]]

\* the value of the object a name refers to
Value(frame, name) == frame.store[frame.env[name]]

\* name = <a new object of this value>
Rebind(frame, name, value) ==
    LET id == <<"local", name, Cardinality(DOMAIN frame.store)>>
    IN  [store |-> (id :> value) @@ frame.store,
         env   |-> (name :> id) @@ frame.env]

\* name[column] = values, for a table
SetColumn(frame, name, column, values) ==
    [frame EXCEPT !.store[frame.env[name]] =
        [columns |-> @.columns \cup {column},
         rows    |-> [i \in 1..Len(@.rows) |->
                        [c \in DOMAIN @.rows[i] \cup {column} |->
                           IF c = column THEN values[i] ELSE @.rows[i][c]]]]]

\* name[key] = value, for a dict
SetItem(frame, name, key, value) ==
    [frame EXCEPT !.store[frame.env[name]] =
        [c \in DOMAIN @ \cup {key} |-> IF c = key THEN value ELSE @[c]]]

\* name.append(value), for a list
AppendTo(frame, name, value) ==
    [frame EXCEPT !.store[frame.env[name]] = Append(@, value)]

\* the caller's objects when the call is over
CallerObjects(frame, arguments) ==
    [n \in DOMAIN arguments |-> frame.store[CallerObject(n)]]

\* calculate_portfolio_pnl, lines 102-126: the loop over the first n rows;
\* each turn binds pnl_data to the dict calculate_pnl returns (114-120),
\* assigns its 'currency' (124) and appends it to pnl_results (126)
RECURSIVE PnlLoop(_, _)
PnlLoop(frame, n) ==
    IF n = 0 THEN frame
    ELSE LET before              == PnlLoop(frame, n - 1)
             row                 == Value(before, "portfolio_df")[n]
             ticker              == row.Ticker
             current_price_local ==
                 DictGet(Value(before, "current_prices"), ticker, Zero)
             currency            ==
                 DictGet(Value(before, "currency_mapping"), ticker, "USD")
             exchange_rate       ==
                 get_exchange_rate_for_currency(currency, Value(before, "exchange_rates"))
             called   == Rebind(before, "pnl_data",
                                calculate_pnl(ticker, row.Shares, row.AvgCostJPY,
                                              current_price_local, exchange_rate))
             assigned == SetItem(called, "pnl_data", "currency", currency)
         IN  AppendTo(assigned, "pnl_results", Value(assigned, "pnl_data"))

\* calculate_portfolio_pnl, lines 100-132: the frame at the return
PortfolioPnlFrame(arguments) ==
    LET entered == Enter(arguments)
        started == Rebind(entered, "pnl_results", <<>>)
        looped  == PnlLoop(started, Len(Value(started, "portfolio_df")))
    IN  Rebind(looped, "pnl_df", DataFrame(Value(looped, "pnl_results")))

\* calculate_portfolio_summary, lines 189-230: the table is only read (sums,
\* extremes, loc) and summary is a new dict; lines 232-234 return another
PortfolioSummaryFrame(arguments) ==
    LET entered == Enter(arguments)
    IN  Rebind(entered, "summary", calculate_portfolio_summary(Value(entered, "pnl_df")))

\* variant of SectorAllocationFrame: the table is not copied at line 272
SectorAllocationFrame_NoCopy(arguments) ==
    LET entered  == Enter(arguments)
        pnl_df   == Value(entered, "pnl_df")
        assigned ==
            IF "ticker" \in pnl_df.columns
            THEN SetColumn(entered, "pnl_df", "country",
                     [i \in 1..Len(pnl_df.rows) |->
                        get_region_for_ticker(pnl_df.rows[i].ticker,
                                              Value(entered, "ticker_countries"))])
            ELSE entered
    IN  IF AllocationInputColumns \subseteq pnl_df.columns
        THEN Rebind(assigned, "sector_allocation",
                    SectorAllocationOf(pnl_df, Value(entered, "ticker_countries")))
        ELSE assigned

\* calculate_sector_allocation, lines 272-298: pnl_df is bound to a copy
\* (272), the region column is assigned to the table pnl_df refers to (273;
\* a table without 'ticker' raises), and the grouped table is a new object
\* (276-294)
SectorAllocationFrame(arguments) ==
    LET entered  == Enter(arguments)
        copied   == Rebind(entered, "pnl_df", Value(entered, "pnl_df"))
        pnl_df   == Value(copied, "pnl_df")
        assigned ==
            IF "ticker" \in pnl_df.columns
            THEN SetColumn(copied, "pnl_df", "country",
                     [i \in 1..Len(pnl_df.rows) |->
                        get_region_for_ticker(pnl_df.rows[i].ticker,
                                              Value(copied, "ticker_countries"))])
            ELSE copied
    IN  IF AllocationInputColumns \subseteq pnl_df.columns
        THEN Rebind(assigned, "sector_allocation",
                    SectorAllocationOf(pnl_df, Value(copied, "ticker_countries")))
        ELSE assigned

\* the frame of a call of one of the functions of the pipeline at its return
FrameOf(function, arguments) ==
    CASE function = "calculate_portfolio_pnl"     -> PortfolioPnlFrame(arguments)
      [] function = "calculate_portfolio_summary" -> PortfolioSummaryFrame(arguments)
      [] function = "calculate_sector_allocation" -> SectorAllocationFrame(arguments)

(***************************************************************************)
(* calculate_var_cvar (modules/risk_calculator, called at app.py:389).     *)
(* The module is not part of the sources; the operators below follow the   *)
(* specification of the VaR/CVaR engine: VaR_c is the (1-c) empirical      *)
(* quantile of the return series, CVaR_c the mean of the returns at or     *)
(* below VaR_c, and a series of fewer than 2 points is insufficient data.  *)
(***************************************************************************)

Le(x, y) == ~Gt(x, y)

\* the series with x inserted in ascending order
RECURSIVE InsertSorted(_, _)
InsertSorted(sorted, x) ==
    IF sorted = <<>> THEN <<x>>
    ELSE IF Le(x, Head(sorted)) THEN <<x>> \o sorted
    ELSE <<Head(sorted)>> \o InsertSorted(Tail(sorted), x)

\* the series in ascending order
RECURSIVE SortSeries(_)
SortSeries(returns) ==
    IF returns = <<>> THEN <<>>
    ELSE InsertSorted(SortSeries(Tail(returns)), Head(returns))

\* the conventions for a quantile that falls between two observations
QuantileMethods == {"linear", "lower", "higher"}

\* the p empirical quantile of a series of 1 point or more: the observation
\* at rank (n - 1) * p of the sorted series, counted from 0; between two
\* observations it is interpolated, or the lower or higher one is taken
Quantile(returns, p, method) ==
    LET sorted == SortSeries(returns)
        h      == Mul(Num(Len(sorted) - 1), p)
        lo     == h.n \div h.d
        frac   == Sub(h, Num(lo))
        below  == sorted[lo + 1]
        above  == IF frac = Zero THEN below ELSE sorted[lo + 2]
    IN  CASE method = "linear" -> Add(below, Mul(frac, Sub(above, below)))
          [] method = "lower"  -> below
          [] method = "higher" -> above

\* the sum of a series
RECURSIVE SeriesSum(_)
SeriesSum(returns) ==
    IF returns = <<>> THEN Zero ELSE Add(Head(returns), SeriesSum(Tail(returns)))

\* the mean of a non-empty series
Mean(returns) == Div(SeriesSum(returns), Num(Len(returns)))

\* variant of TailMean: the mean of the returns at or above the threshold
TailMean_Upper(returns, threshold) ==
    LET tail == SelectSeq(returns, LAMBDA r : Le(threshold, r))
    IN  IF tail = <<>> THEN NaN ELSE Mean(tail)

\* the mean of the returns at or below the threshold
TailMean(returns, threshold) ==
    LET tail == SelectSeq(returns, LAMBDA r : Le(r, threshold))
    IN  IF tail = <<>> THEN NaN ELSE Mean(tail)

\* no metrics: the series is empty or has a single point
InsufficientData == [k |-> "insufficient_data"]

\* the tail probabilities 1 - c of the confidence levels 95% and 99%
Tail95 == Norm(5, 100)

Tail99 == Norm(1, 100)

calculate_var_cvar(portfolio_returns, method) ==
    IF Len(portfolio_returns) < 2 THEN InsufficientData
    ELSE LET var_95 == Quantile(portfolio_returns, Tail95, method)
             var_99 == Quantile(portfolio_returns, Tail99, method)
         IN  [k       |-> "VarMetrics",
              VaR_95  |-> var_95,
              VaR_99  |-> var_99,
              CVaR_95 |-> TailMean(portfolio_returns, var_95),
              CVaR_99 |-> TailMean(portfolio_returns, var_99)]

(***************************************************************************)
(* calculate_position_sizing_analysis (pnl_calculator.py:349-397)          *)
(***************************************************************************)

\* pnl_df.empty: no rows or no columns
IsEmptyFrame(pnl_df) == Len(pnl_df.rows) = 0 \/ pnl_df.columns = {}

\* line 366: the share of each position in the total value, in percent
PositionWeight(current_value_jpy, total_value) ==
    SeriesTimes100(SeriesDiv(current_value_jpy, total_value))

\* the table with the position_weight column assigned at line 366
WithPositionWeight(pnl_df) ==
    LET total_value == ColumnSum(pnl_df.rows, "current_value_jpy", Len(pnl_df.rows))
    IN  [columns |-> pnl_df.columns \cup {"position_weight"},
         rows    |-> [i \in 1..Len(pnl_df.rows) |->
                        [c \in DOMAIN pnl_df.rows[i] \cup {"position_weight"} |->
                           IF c = "position_weight"
                           THEN PositionWeight(pnl_df.rows[i].current_value_jpy, total_value)
                           ELSE pnl_df.rows[i][c]]]]

\* the caller's table after the call: line 366 assigns the column to the
\* table passed in; an empty table returns at line 361 and a table without
\* current_value_jpy raises at line 363, both before the assignment
SizingCallerTable(pnl_df) ==
    IF IsEmptyFrame(pnl_df) \/ "current_value_jpy" \notin pnl_df.columns
    THEN pnl_df
    ELSE WithPositionWeight(pnl_df)

\* nlargest(k, 'position_weight')['position_weight'].sum()
TopWeightSum(weights, k) ==
    LET sorted == SortSeries(weights)
        n      == Len(sorted)
        first  == IF n > k THEN n - k + 1 ELSE 1
    IN  SeriesSum(SubSeq(sorted, first, n))

\* Series.var(): the sample variance, nan for a single value
SampleVariance(weights) ==
    LET n      == Len(weights)
        mean   == Div(SeriesSum(weights), Num(n))
        square == [i \in 1..n |-> Mul(Sub(weights[i], mean), Sub(weights[i], mean))]
    IN  SeriesDiv(SeriesSum(square), Num(n - 1))

\* {}
EmptyAnalysis == [k |-> "empty_dict"]

\* lines 363-393 for a table whose total value is not 0
SizingAnalysisOf(pnl_df) ==
    LET df      == WithPositionWeight(pnl_df).rows
        n       == Len(df)
        weights == [i \in 1..n |-> df[i].position_weight]
    IN  [k                      |-> "analysis",
         total_positions        |-> n,
         top_5_concentration    |-> TopWeightSum(weights, 5),
         top_10_concentration   |-> TopWeightSum(weights, 10),
         herfindahl_index       |-> SeriesSum([i \in 1..n |-> Mul(weights[i], weights[i])]),
         equal_weight_benchmark |-> Div(Hundred, Num(n)),
         weight_variance        |-> SampleVariance(weights),
         max_position_weight    |-> df[IdxMax(df, "position_weight", n)].position_weight,
         min_position_weight    |-> df[IdxMin(df, "position_weight", n)].position_weight,
         largest_position       |-> df[IdxMax(df, "position_weight", n)].ticker,
         smallest_position      |-> df[IdxMin(df, "position_weight", n)].ticker]

\* an empty table returns {} at line 361. A missing column raises inside the
\* try block. With total value 0 every weight is nan (0/0), idxmax at line 388
\* finds no label and the lookup raises; every exception returns {} (lines
\* 395-397)
calculate_position_sizing_analysis(pnl_df) ==
    IF IsEmptyFrame(pnl_df) THEN EmptyAnalysis
    ELSE IF ~({"current_value_jpy", "ticker"} \subseteq pnl_df.columns) THEN EmptyAnalysis
    ELSE IF ColumnSum(pnl_df.rows, "current_value_jpy", Len(pnl_df.rows)) = Zero
    THEN EmptyAnalysis
    ELSE SizingAnalysisOf(pnl_df)

(***************************************************************************)
(* main_dashboard and the views it displays (app.py:45-113, 133-200,       *)
(* 513-531, 595-624).  Streamlit runs main_dashboard again on every        *)
(* interaction; st.session_state is what survives from one run to the next.*)
(***************************************************************************)

\* a key st.session_state does not hold
Absent == [k |-> "absent"]

\* st.session_state of a new browser session
NewSession ==
    [current_tab |-> Absent, uploaded_data |-> Absent, portfolio_df |-> Absent,
     ticker_countries_cache |-> Absent]

\* uploaded_file.getvalue(): the bytes of a file
Bytes(name) == [k |-> "bytes", name |-> name]

\* the table load_portfolio_data reads from the bytes of a file
PortfolioOf(bytes) ==
    [k |-> "portfolio",
     Ticker |-> CASE bytes.name = "one.csv" -> <<"AAPL">>
                  [] bytes.name = "two.csv" -> <<"7203.T">>
                  [] bytes.name = "both.csv" -> <<"AAPL", "7203.T">>]

\* the country the lookup service has for a ticker
CountryOf(ticker) ==
    IF ticker = "7203.T" THEN Str("JAPAN", "title", FALSE)
                         ELSE Str("UNITED STATES", "title", FALSE)

\* cached_get_multiple_ticker_countries(tuple(tickers)): found are the tickers
\* the lookup answers with a country; for the others get_ticker_country
\* returns None (country_fetcher.py:30-39: no or an empty 'country' in the
\* answer, or the lookup raises) and the dictionary holds None (lines 56-60)
FetchCountries(tickers, found) ==
    Dict([t \in {tickers[i] : i \in 1..Len(tickers)} |->
            IF t \in found THEN CountryOf(t) ELSE None])

\* `country if country else "..."` (app.py:527, 619): the placeholder "fetch
\* failed" is shown for a country that is None or ''
CountryDisplay(country) ==
    IF Falsy(country) THEN Literal("FETCH FAILED") ELSE country

\* lines 55-60
InitialiseSession(s) ==
    [s EXCEPT !.current_tab   = IF @ = Absent THEN Num(0) ELSE @,
              !.uploaded_data = IF @ = Absent THEN None ELSE @,
              !.portfolio_df  = IF @ = Absent THEN None ELSE @]

\* variant of StoreUpload: the new bytes are stored but the stored portfolio is kept
StoreUpload_NoReset(s, uploaded_file) ==
    IF uploaded_file # None /\ s.uploaded_data # uploaded_file
    THEN [s EXCEPT !.uploaded_data = uploaded_file]
    ELSE s

\* lines 74-80
StoreUpload(s, uploaded_file) ==
    IF uploaded_file # None /\ s.uploaded_data # uploaded_file
    THEN [s EXCEPT !.uploaded_data = uploaded_file, !.portfolio_df = None]
    ELSE s

\* lines 604-606: the countries are fetched only when the session holds none
CacheCountries(s, tickers, found) ==
    IF s.ticker_countries_cache = Absent
    THEN [s EXCEPT !.ticker_countries_cache = FetchCountries(tickers, found)]
    ELSE s

\* lines 616-619: ticker_countries.get(ticker), shown with the placeholder when
\* it is None or '', and its region
get_country_info(ticker, ticker_countries) ==
    LET country == DictGet(ticker_countries.items, ticker, None)
    IN  [country |-> CountryDisplay(country),
         region  |-> classify_region_by_country(country)]

\* the tabs of the dashboard (lines 167-170): the two with country data, and
\* one of the others
Tabs == {"performance", "allocation", "detail"}

\* line 183: tab_names.index(selected_tab)
TabIndex(selected_tab) ==
    CASE selected_tab = "performance" -> Num(0)
      [] selected_tab = "allocation"  -> Num(2)
      [] selected_tab = "detail"      -> Num(4)

\* lines 188-197: the country and region the selected view shows per ticker;
\* the allocation view fetches the countries (line 520), shows them with the
\* placeholder (lines 525-528) and takes the regions of
\* calculate_sector_allocation (line 531)
ViewOf(selected_tab, s, tickers, found) ==
    LET shown == {tickers[i] : i \in 1..Len(tickers)}
        ticker_countries == FetchCountries(tickers, found)
    IN  CASE selected_tab = "allocation" ->
               [t \in shown |->
                  [country |-> CountryDisplay(ticker_countries.items[t]),
                   region  |-> get_region_for_ticker(t, ticker_countries)]]
          [] selected_tab = "detail" ->
               [t \in shown |->
                  get_country_info(t,
                      CacheCountries(s, tickers, found).ticker_countries_cache)]
          [] OTHER -> [t \in {} |-> None]

(***************************************************************************)
(* display_risk_analysis (app.py:263-510): the return table, the weights   *)
(* and the calls of the risk engine, the VaR/CVaR engine and the stress    *)
(* tester                                                                  *)
(***************************************************************************)

\* the local variables of a run before line 309
RiskLocals ==
    [message |-> "none", returns_columns |-> {}, valid_tickers |-> <<>>,
     valid_weights |-> <<>>, portfolio_returns |-> <<>>, var_metrics |-> NoValue,
     calls |-> <<>>]

\* line 314: historical_data.empty, a table without columns or without rows
HistoricalDataEmpty(historical_data) ==
    historical_data.columns = {} \/ historical_data.rows = 0

\* lines 323-328: the columns of returns_df, one per ticker that has a
\* column in historical_data and a non-empty return series
ReturnsColumns(tickers, historical_data) ==
    {t \in {tickers[i] : i \in 1..Len(tickers)} :
        t \in historical_data.columns /\ historical_data.returns[t] # <<>>}

\* line 341
ValidTickers(tickers, returns_columns) ==
    SelectSeq(tickers, LAMBDA ticker : ticker \in returns_columns)

\* line 342: pnl_df[pnl_df['ticker'].isin(valid_tickers)]
ValidPnl(pnl_df, valid_tickers) ==
    SelectSeq(pnl_df.rows,
              LAMBDA row : \E i \in 1..Len(valid_tickers) : valid_tickers[i] = row.ticker)

\* lines 353-354
ValidWeights(pnl_df, valid_tickers) ==
    LET valid_pnl         == ValidPnl(pnl_df, valid_tickers)
        valid_total_value == ColumnSum(valid_pnl, "current_value_jpy", Len(valid_pnl))
    IN  [i \in 1..Len(valid_pnl) |->
            SeriesDiv(valid_pnl[i].current_value_jpy, valid_total_value)]

\* the sum of the numbers of a row, nan skipped (DataFrame.sum(axis=1))
RECURSIVE SumSkipNa(_)
SumSkipNa(values) ==
    IF values = <<>> THEN Zero
    ELSE Add(IF IsNumeric(Head(values)) THEN Head(values) ELSE Zero,
             SumSkipNa(Tail(values)))

\* line 386: (returns_df[valid_tickers] * valid_weights).sum(axis=1)
PortfolioReturns(historical_data, valid_tickers, valid_weights) ==
    LET periods == Len(historical_data.returns[valid_tickers[1]])
    IN  [t \in 1..periods |->
            SumSkipNa([j \in 1..Len(valid_tickers) |->
                IF IsNumeric(valid_weights[j])
                THEN Mul(historical_data.returns[valid_tickers[j]][t], valid_weights[j])
                ELSE NaN])]

\* a call of one of the three engines with the return columns and weights
EngineCall(name, valid_tickers, valid_weights) ==
    [fn |-> name, columns |-> valid_tickers, weights |-> valid_weights]

\* `if var_metrics:` (line 391)
Truthy(metrics) == metrics # InsufficientData /\ metrics # NoValue

(***************************************************************************)
(* Inputs of calculate_portfolio_pnl                                       *)
(***************************************************************************)
MaxPositions == 2

PortfolioShares == {Num(1), Num(2)}

PortfolioAvgCosts == {Num(0), Num(100)}

Positions ==
    [Ticker : Tickers, Shares : PortfolioShares, AvgCostJPY : PortfolioAvgCosts]

\* portfolio_df: the rows of the uploaded table, in file order
Portfolios == UNION {[1..n -> Positions] : n \in 0..MaxPositions}

\* current_prices: a ticker may be absent, or map to None, 0 or a quote
PriceTables == UNION {[P -> {None, Num(0), Num(2)}] : P \in SUBSET Tickers}

\* exchange_rates as fetched: empty, or holding the USD pair
PortfolioFxTables == {t \in FxTables : DOMAIN t \subseteq {"USDJPY=X"} /\ \A s \in DOMAIN t : t[s] = Num(155)}

\* currency_mapping: every ticker mapped, or none
CurrencyMappings ==
    {[t \in Tickers |-> IF t = "7203.T" THEN "JPY" ELSE "USD"], [t \in {} |-> "USD"]}

(***************************************************************************)
(* The calls                                                               *)
(***************************************************************************)
InitCalculatePnl ==
    \E ticker \in Tickers, shares \in SharesValues, avg_cost_jpy \in AvgCosts,
       current_price_local \in LocalPrices, exchange_rate \in Rates :
        /\ fn = "calculate_pnl"
        /\ args = [ticker |-> ticker, shares |-> shares, avg_cost_jpy |-> avg_cost_jpy,
                   current_price_local |-> current_price_local,
                   exchange_rate |-> exchange_rate]

InitGetExchangeRate ==
    \E currency \in Currencies, exchange_rates \in FxTables :
        /\ fn = "get_exchange_rate_for_currency"
        /\ args = [currency |-> currency, exchange_rates |-> exchange_rates]

InitCalculatePortfolioPnl ==
    \E portfolio_df \in Portfolios, current_prices \in PriceTables,
       exchange_rates \in PortfolioFxTables, currency_mapping \in CurrencyMappings :
        /\ fn = "calculate_portfolio_pnl"
        /\ args = [portfolio_df |-> portfolio_df, current_prices |-> current_prices,
                   exchange_rates |-> exchange_rates,
                   currency_mapping |-> currency_mapping]

\* the columns of the table calculate_portfolio_pnl builds (lines 50-61, 124)
PnlColumns ==
    {"ticker", "shares", "avg_cost_jpy", "current_price_local", "current_price_jpy",
     "exchange_rate", "current_value_jpy", "cost_basis_jpy", "pnl_amount",
     "pnl_percentage", "currency"}

\* calculate_portfolio_summary called on a table without rows: with the
\* result columns, with the result columns but 'ticker', and without columns
\* (pd.DataFrame() as calculate_portfolio_pnl returns it for no results)
InitCalculatePortfolioSummary ==
    \E columns \in {PnlColumns, PnlColumns \ {"ticker"}, {}} :
        /\ fn = "calculate_portfolio_summary"
        /\ args = [pnl_df |-> [columns |-> columns, rows |-> <<>>]]

\* country names: the ones the source enumerates, and some it does not
CountryNames ==
    {"JAPAN", "UNITED STATES", "USA", "US", "CANADA"}
        \cup european_countries \cup asia_pacific_countries
        \cup {"BRAZIL", "NEW JAPAN", "SOUTH AFRICA"}

\* the countries handed to classify_region_by_country: None, '', and every
\* name in three spellings, with and without surrounding whitespace
CountryInputs ==
    {None, Literal(""), Str("", "upper", TRUE)}
        \cup {Str(name, case, pad) :
                name \in CountryNames, case \in {"upper", "title", "lower"},
                pad \in BOOLEAN}

InitClassifyRegionByCountry ==
    \E country \in CountryInputs :
        /\ fn = "classify_region_by_country"
        /\ args = [country |-> country]

\* tickers of the exchanges the suffix fallback names, and an unsuffixed one
SuffixTickers ==
    {"AAPL", "7203.T", "ASML.AS", "MC.PA", "SAP.DE", "ENI.MI", "HSBA.L",
     "RY.TO", "NVO.V", "BHP.AX", "0700.HK"}

\* what get_multiple_ticker_countries stores for a ticker: a country name, or
\* None when the lookup failed (country_fetcher.py:52-63)
CountryValues ==
    {None, Str("JAPAN", "title", FALSE), Str("UNITED STATES", "title", FALSE)}

\* ticker_countries over a set of tickers: no dict, or a dict with an entry
\* for some of them
CountryMappings(tickers) ==
    {NoDict} \cup {Dict(f) : f \in UNION {[P -> CountryValues] : P \in SUBSET tickers}}

InitGetRegionForTicker ==
    \E ticker \in SuffixTickers :
      \E ticker_countries \in CountryMappings({ticker}) :
        /\ fn = "get_region_for_ticker"
        /\ args = [ticker |-> ticker, ticker_countries |-> ticker_countries]

\* the region-aggregation scenario: two positions domiciled in Japan worth
\* 1,000,000 and 2,000,000 and one in the United States worth 3,000,000
ScenarioPnlDf ==
    calculate_portfolio_pnl(
        <<[Ticker |-> "7203.T", Shares |-> Num(1000), AvgCostJPY |-> Num(800)],
          [Ticker |-> "6758.T", Shares |-> Num(1000), AvgCostJPY |-> Num(1500)],
          [Ticker |-> "AAPL", Shares |-> Num(100), AvgCostJPY |-> Num(15000)]>>,
        [t \in {"7203.T", "6758.T", "AAPL"} |->
            CASE t = "7203.T" -> Num(1000) [] t = "6758.T" -> Num(2000) [] t = "AAPL" -> Num(200)],
        [t \in {} |-> Zero],
        [t \in {"7203.T", "6758.T", "AAPL"} |-> IF t = "AAPL" THEN "USD" ELSE "JPY"])

ScenarioCountries ==
    Dict([t \in {"7203.T", "6758.T", "AAPL"} |->
            IF t = "AAPL" THEN Str("UNITED STATES", "title", FALSE)
                          ELSE Str("JAPAN", "title", FALSE)])

\* the positions the allocation is computed for: a US ticker, a Tokyo ticker
\* and a Toronto ticker, bought at a cost or received at none
AllocationTickers == {"AAPL", "7203.T", "RY.TO"}

MaxAllocationPositions == 2

AllocationPortfolios ==
    UNION {[1..n -> [Ticker : AllocationTickers, Shares : {Num(1)},
                     AvgCostJPY : PortfolioAvgCosts]] : n \in 1..MaxAllocationPositions}

\* every quote is 150 yen, or every quote is 0
AllocationPrices == {Num(0), Num(150)}

\* pnl_df as display_allocation_analysis receives it (app.py:517-531): the
\* table calculate_portfolio_pnl built; also the scenario, an empty table with
\* the columns, and a table without columns
AllocationTables ==
    {ScenarioPnlDf, [columns |-> PnlColumns, rows |-> <<>>], DataFrame(<<>>)}
    \cup {calculate_portfolio_pnl(portfolio_df, [t \in AllocationTickers |-> price],
                                  [t \in {} |-> Zero], [t \in AllocationTickers |-> "JPY"]) :
            portfolio_df \in AllocationPortfolios, price \in AllocationPrices}

\* the tickers of a table
TickersOf(pnl_df) == {pnl_df.rows[i].ticker : i \in 1..Len(pnl_df.rows)}

InitCalculateSectorAllocation ==
    \E pnl_df \in AllocationTables :
      \E ticker_countries \in CountryMappings(TickersOf(pnl_df)) \cup {ScenarioCountries} :
        /\ fn = "calculate_sector_allocation"
        /\ args = [pnl_df |-> pnl_df, ticker_countries |-> ticker_countries]

\* portfolio returns of one period: losses of 10% and 2%, no change, a gain of 5%
ReturnValues == {Norm(-1, 10), Norm(-1, 50), Zero, Norm(1, 20)}

MaxReturns == 3

\* portfolio_returns: the series of app.py:386, of any length up to MaxReturns
ReturnSeries == UNION {[1..n -> ReturnValues] : n \in 0..MaxReturns}

InitCalculateVarCvar ==
    \E portfolio_returns \in ReturnSeries, method \in QuantileMethods :
        /\ fn = "calculate_var_cvar"
        /\ args = [portfolio_returns |-> portfolio_returns, method |-> method]

\* calculate_position_sizing_analysis is called on the tables of results
InitCalculatePositionSizingAnalysis ==
    \E pnl_df \in AllocationTables :
        /\ fn = "calculate_position_sizing_analysis"
        /\ args = [pnl_df |-> pnl_df]

\* the most positions of a risk-analysis run
MaxRiskPositions == 2

\* the most periods of a return series
MaxReturnPoints == 2

\* the positions of a risk-analysis run, and the table of their results
RiskPortfolios ==
    UNION {[1..n -> [Ticker : Tickers, Shares : PortfolioShares, AvgCostJPY : {Num(100)}]] :
             n \in 1..MaxRiskPositions}

\* the return of a ticker in period t, as calculate_returns gives it
TickerReturn(ticker, t) ==
    IF ticker = "AAPL" THEN Norm(t - 2, 10) ELSE Norm(1 - t, 50)

\* historical_data: a table of prices with a column for some of the tickers
\* and a number of rows, with the return series calculate_returns gives for
\* each column (one return per row after the first)
HistoricalData(tickers) ==
    {[columns |-> C, rows |-> rows,
      returns |-> [t \in C |-> [p \in 1..(rows - 1) |-> TickerReturn(t, p)]]] :
        C \in SUBSET {tickers[i] : i \in 1..Len(tickers)},
        rows \in 0..(MaxReturnPoints + 1)}

\* display_risk_analysis(pnl_df, tickers, portfolio_df) as called at app.py:191
InitDisplayRiskAnalysis ==
    /\ fn = "display_risk_analysis"
    /\ pc = "call"
    /\ ret = NoValue
    /\ session_state = NewSession
    /\ locals = RiskLocals
    /\ \E portfolio_df \in RiskPortfolios, price \in AllocationPrices :
         LET tickers == [i \in 1..Len(portfolio_df) |-> portfolio_df[i].Ticker]
         IN  \E historical_data \in HistoricalData(tickers) :
               args = [pnl_df |-> calculate_portfolio_pnl(portfolio_df,
                                     [t \in Tickers |-> price], [t \in {} |-> Zero],
                                     [t \in Tickers |-> "JPY"]),
                       tickers |-> tickers,
                       historical_data |-> historical_data]

\* a call of one of the functions
InitCall ==
    /\ pc = "call"
    /\ ret = NoValue
    /\ session_state = NewSession
    /\ locals = NoValue
    /\ \/ InitCalculatePnl
       \/ InitGetExchangeRate
       \/ InitCalculatePortfolioPnl
       \/ InitCalculatePortfolioSummary
       \/ InitClassifyRegionByCountry
       \/ InitGetRegionForTicker
       \/ InitCalculateSectorAllocation
       \/ InitCalculateVarCvar
       \/ InitCalculatePositionSizingAnalysis

\* the tickers of the files
SessionTickers == {"AAPL", "7203.T"}

\* the files a user uploads
UploadedFiles == {Bytes("one.csv"), Bytes("two.csv"), Bytes("both.csv")}

\* a browser session opens the dashboard
InitMainDashboard ==
    /\ fn = "main_dashboard"
    /\ args = NoValue
    /\ pc = "idle"
    /\ ret = NoValue
    /\ session_state = NewSession
    /\ locals = NoValue

Init == InitCall \/ InitDisplayRiskAnalysis \/ InitMainDashboard

CalculatePnl ==
    /\ pc = "call"
    /\ fn = "calculate_pnl"
    /\ ret' = calculate_pnl(args.ticker, args.shares, args.avg_cost_jpy,
                            args.current_price_local, args.exchange_rate)
    /\ pc' = "done"
    /\ UNCHANGED <<fn, args, session_state, locals>>

GetExchangeRateForCurrency ==
    /\ pc = "call"
    /\ fn = "get_exchange_rate_for_currency"
    /\ ret' = get_exchange_rate_for_currency(args.currency, args.exchange_rates)
    /\ pc' = "done"
    /\ UNCHANGED <<fn, args, session_state, locals>>

CalculatePortfolioPnl ==
    /\ pc = "call"
    /\ fn = "calculate_portfolio_pnl"
    /\ ret' = calculate_portfolio_pnl(args.portfolio_df, args.current_prices,
                                      args.exchange_rates, args.currency_mapping)
    /\ args' = CallerObjects(FrameOf(fn, args), args)
    /\ pc' = "done"
    /\ UNCHANGED <<fn, session_state, locals>>

\* app.py:150-158: the summary is computed from the table
\* calculate_portfolio_pnl returned, unless the table is empty (lines 154-156:
\* a warning, and display_portfolio_dashboard returns)
CalculatePortfolioSummary ==
    /\ pc = "done"
    /\ fn = "calculate_portfolio_pnl"
    /\ ~IsEmptyFrame(ret)
    /\ fn' = "calculate_portfolio_summary"
    /\ args' = CallerObjects(FrameOf(fn', [pnl_df |-> ret]), [pnl_df |-> ret])
    /\ ret' = calculate_portfolio_summary(ret)
    /\ pc' = "done"
    /\ UNCHANGED <<session_state, locals>>

\* calculate_portfolio_summary called on a table of its own
CalculatePortfolioSummaryCall ==
    /\ pc = "call"
    /\ fn = "calculate_portfolio_summary"
    /\ ret' = calculate_portfolio_summary(args.pnl_df)
    /\ args' = CallerObjects(FrameOf(fn, args), args)
    /\ pc' = "done"
    /\ UNCHANGED <<fn, session_state, locals>>

ClassifyRegionByCountry ==
    /\ pc = "call"
    /\ fn = "classify_region_by_country"
    /\ ret' = classify_region_by_country(args.country)
    /\ pc' = "done"
    /\ UNCHANGED <<fn, args, session_state, locals>>

GetRegionForTicker ==
    /\ pc = "call"
    /\ fn = "get_region_for_ticker"
    /\ ret' = get_region_for_ticker(args.ticker, args.ticker_countries)
    /\ pc' = "done"
    /\ UNCHANGED <<fn, args, session_state, locals>>

CalculateSectorAllocation ==
    /\ pc = "call"
    /\ fn = "calculate_sector_allocation"
    /\ ret' = calculate_sector_allocation(args.pnl_df, args.ticker_countries)
    /\ args' = CallerObjects(FrameOf(fn, args), args)
    /\ pc' = "done"
    /\ UNCHANGED <<fn, session_state, locals>>

\* app.py:389
CalculateVarCvar ==
    /\ pc = "call"
    /\ fn = "calculate_var_cvar"
    /\ ret' = calculate_var_cvar(args.portfolio_returns, args.method)
    /\ pc' = "done"
    /\ UNCHANGED <<fn, args, session_state, locals>>

CalculatePositionSizingAnalysis ==
    /\ pc = "call"
    /\ fn = "calculate_position_sizing_analysis"
    /\ ret' = calculate_position_sizing_analysis(args.pnl_df)
    /\ args' = [args EXCEPT !.pnl_df = SizingCallerTable(args.pnl_df)]
    /\ pc' = "done"
    /\ UNCHANGED <<fn, session_state, locals>>

\* the functions of the pipeline that are called again on the same objects
RepeatedFunctions ==
    {"calculate_portfolio_pnl", "calculate_portfolio_summary", "calculate_sector_allocation"}

\* the same call once more, on the objects the caller still holds
RepeatCall ==
    /\ pc = "done"
    /\ fn \in RepeatedFunctions
    /\ ret' = CASE fn = "calculate_portfolio_pnl" ->
                    calculate_portfolio_pnl(args.portfolio_df, args.current_prices,
                                            args.exchange_rates, args.currency_mapping)
              [] fn = "calculate_portfolio_summary" ->
                    calculate_portfolio_summary(args.pnl_df)
              [] fn = "calculate_sector_allocation" ->
                    calculate_sector_allocation(args.pnl_df, args.ticker_countries)
    /\ args' = CallerObjects(FrameOf(fn, args), args)
    /\ pc' = "repeated"
    /\ UNCHANGED <<fn, session_state, locals>>

\* one run of main_dashboard: the file in the uploader (or none), whether
\* load_portfolio_data succeeds, the tab the user selects, and the tickers
\* the country lookup answers for in this run
MainDashboard ==
    /\ fn = "main_dashboard"
    /\ \E uploaded_file \in UploadedFiles \cup {None}, load_ok \in BOOLEAN,
          selected_tab \in Tabs, found \in SUBSET SessionTickers :
          LET s1 == StoreUpload(InitialiseSession(session_state), uploaded_file)
              loaded == uploaded_file # None /\ s1.portfolio_df = None
              portfolio_df ==
                  IF uploaded_file = None THEN None
                  ELSE IF loaded
                  THEN (IF load_ok THEN PortfolioOf(uploaded_file) ELSE None)
                  ELSE s1.portfolio_df
              s2 == IF loaded /\ portfolio_df # None
                    THEN [s1 EXCEPT !.portfolio_df = portfolio_df]
                    ELSE s1
              displayed == IF uploaded_file = None THEN "welcome"
                           ELSE IF portfolio_df # None THEN "dashboard"
                           ELSE "error"
              s3 == IF displayed # "dashboard" THEN s2
                    ELSE LET s == [s2 EXCEPT !.current_tab = TabIndex(selected_tab)]
                         IN  IF selected_tab = "detail"
                             THEN CacheCountries(s, portfolio_df.Ticker, found)
                             ELSE s
          IN  /\ session_state' = s3
              /\ args' = [uploaded_file |-> uploaded_file, load_ok |-> load_ok,
                          selected_tab |-> selected_tab, found |-> found]
              /\ locals' = [loaded       |-> loaded,
                            portfolio_df |-> portfolio_df,
                            displayed    |-> displayed,
                            view         |->
                                IF displayed = "dashboard"
                                THEN ViewOf(selected_tab, s2, portfolio_df.Ticker, found)
                                ELSE [t \in {} |-> None]]
    /\ pc' = "rendered"
    /\ UNCHANGED <<fn, ret>>

\* lines 309-334: the historical data and the table of returns
RiskLoadReturns ==
    /\ fn = "display_risk_analysis"
    /\ pc = "call"
    /\ LET returns_columns == ReturnsColumns(args.tickers, args.historical_data)
       IN  IF HistoricalDataEmpty(args.historical_data)
           THEN locals' = [locals EXCEPT !.message = "warning"] /\ pc' = "done"
           ELSE IF returns_columns = {}
           THEN locals' = [locals EXCEPT !.message = "error"] /\ pc' = "done"
           ELSE /\ locals' = [locals EXCEPT !.returns_columns = returns_columns]
                /\ pc' = "weights"
    /\ UNCHANGED <<fn, args, ret, session_state>>

\* lines 336-354: the tickers kept and their weights
RiskValidWeights ==
    /\ fn = "display_risk_analysis"
    /\ pc = "weights"
    /\ LET valid_tickers == ValidTickers(args.tickers, locals.returns_columns)
       IN  IF Len(valid_tickers) < 2
           THEN /\ locals' = [locals EXCEPT !.valid_tickers = valid_tickers,
                                            !.message = "error"]
                /\ pc' = "done"
           ELSE /\ locals' = [locals EXCEPT
                                !.valid_tickers = valid_tickers,
                                !.valid_weights = ValidWeights(args.pnl_df, valid_tickers)]
                /\ pc' = "risk"
    /\ UNCHANGED <<fn, args, ret, session_state>>

\* line 357
RiskCalculatePortfolioRisk ==
    /\ fn = "display_risk_analysis"
    /\ pc = "risk"
    /\ locals' = [locals EXCEPT !.calls =
                    Append(@, EngineCall("calculate_portfolio_risk",
                                         locals.valid_tickers, locals.valid_weights))]
    /\ pc' = "var"
    /\ UNCHANGED <<fn, args, ret, session_state>>

\* lines 386-391
RiskCalculateVarCvar ==
    /\ fn = "display_risk_analysis"
    /\ pc = "var"
    /\ \E method \in QuantileMethods :
         LET portfolio_returns == PortfolioReturns(args.historical_data,
                                      locals.valid_tickers, locals.valid_weights)
             var_metrics == calculate_var_cvar(portfolio_returns, method)
         IN  /\ locals' = [locals EXCEPT
                             !.portfolio_returns = portfolio_returns,
                             !.var_metrics = var_metrics,
                             !.calls = Append(@, EngineCall("calculate_var_cvar",
                                           locals.valid_tickers, locals.valid_weights))]
             /\ pc' = IF Truthy(var_metrics) THEN "stress" ELSE "done"
    /\ UNCHANGED <<fn, args, ret, session_state>>

\* lines 416-419, inside the block of `if var_metrics:`
RiskStressTest ==
    /\ fn = "display_risk_analysis"
    /\ pc = "stress"
    /\ locals' = [locals EXCEPT !.calls =
                    Append(@, EngineCall("stress_test_scenario",
                                         locals.valid_tickers, locals.valid_weights))]
    /\ pc' = "done"
    /\ UNCHANGED <<fn, args, ret, session_state>>

Next ==
    \/ CalculatePnl
    \/ GetExchangeRateForCurrency
    \/ CalculatePortfolioPnl
    \/ CalculatePortfolioSummary
    \/ CalculatePortfolioSummaryCall
    \/ ClassifyRegionByCountry
    \/ GetRegionForTicker
    \/ CalculateSectorAllocation
    \/ CalculateVarCvar
    \/ CalculatePositionSizingAnalysis
    \/ RepeatCall
    \/ MainDashboard
    \/ RiskLoadReturns
    \/ RiskValidWeights
    \/ RiskCalculatePortfolioRisk
    \/ RiskCalculateVarCvar
    \/ RiskStressTest

Spec == Init /\ [][Next]_vars

(***************************************************************************)
(* Properties of calculate_pnl                                             *)
(***************************************************************************)

\* the number x equals the fraction n/d (d # 0), by cross-multiplication
IsRatio(x, n, d) == IsNumeric(x) /\ x.n * d = n * x.d

\* calculate_pnl has returned
PnlReturned == pc = "done" /\ fn = "calculate_pnl"

PnlFields ==
    {"ticker", "shares", "avg_cost_jpy", "current_price_local", "current_price_jpy",
     "exchange_rate", "current_value_jpy", "cost_basis_jpy", "pnl_amount",
     "pnl_percentage"}

\* C1: for a numeric local price p and exchange rate r, calculate_pnl returns
\* current_price_jpy = p * r, current_value_jpy = p * r * shares,
\* cost_basis_jpy = avg_cost * shares (no price, no rate in it) and
\* pnl_amount = current_value_jpy - cost_basis_jpy; shares=100, avg_cost=15000,
\* price=190, rate=150 gives 2,850,000 / 1,500,000 / 1,350,000 / 90.
C1_PnlArithmetic ==
    (PnlReturned /\ IsNumeric(args.current_price_local) /\ IsNumeric(args.exchange_rate)) =>
        LET p == args.current_price_local
            r == args.exchange_rate
            s == args.shares
            a == args.avg_cost_jpy
        IN  /\ IsRatio(ret.current_price_jpy, p.n * r.n, p.d * r.d)
            /\ IsRatio(ret.current_value_jpy, p.n * r.n * s.n, p.d * r.d * s.d)
            /\ IsRatio(ret.cost_basis_jpy, a.n * s.n, a.d * s.d)
            /\ ret.pnl_amount = Sub(ret.current_value_jpy, ret.cost_basis_jpy)
            /\ (s = Num(100) /\ a = Num(15000) /\ p = Num(190) /\ r = Num(150)) =>
                  /\ ret.current_price_jpy = Num(28500)
                  /\ ret.current_value_jpy = Num(2850000)
                  /\ ret.cost_basis_jpy = Num(1500000)
                  /\ ret.pnl_amount = Num(1350000)
                  /\ ret.pnl_percentage = Num(90)

\* the scenario of the specification has been computed
C1_Witness ==
    /\ PnlReturned
    /\ args.shares = Num(100) /\ args.avg_cost_jpy = Num(15000)
    /\ args.current_price_local = Num(190) /\ args.exchange_rate = Num(150)
    /\ ret.pnl_amount = Num(1350000)

\* C2 as stated: with a local price of 0, calculate_pnl returns home price 0,
\* value 0, pnl_amount = -cost basis and pnl_percentage = -100 for every share
\* count and every average cost >= 0, average cost 0 included.
C2_ZeroPriceAlwaysMinusHundred ==
    (PnlReturned /\ args.current_price_local = Zero) =>
        /\ ret.current_price_jpy = Zero
        /\ ret.current_value_jpy = Zero
        /\ ret.pnl_amount = Neg(ret.cost_basis_jpy)
        /\ ret.pnl_percentage = Neg(Hundred)

\* C2 as amended: with a local price of 0, calculate_pnl returns home price 0,
\* value 0 and pnl_amount = -cost basis; pnl_percentage is -100 when the cost
\* basis is > 0, and 0 when the cost basis is 0 and the exchange rate is a number.
C2_ZeroPrice ==
    (PnlReturned /\ args.current_price_local = Zero) =>
        /\ ret.current_price_jpy = Zero
        /\ ret.current_value_jpy = Zero
        /\ ret.pnl_amount = Neg(ret.cost_basis_jpy)
        /\ Gt(ret.cost_basis_jpy, Zero) => ret.pnl_percentage = Neg(Hundred)
        /\ (ret.cost_basis_jpy = Zero /\ IsNumeric(args.exchange_rate)) =>
              ret.pnl_percentage = Zero

\* a zero price on a position of average cost 0 has been computed
C2_Witness ==
    /\ PnlReturned
    /\ args.current_price_local = Zero
    /\ args.avg_cost_jpy = Zero
    /\ IsNumeric(args.exchange_rate)
    /\ ret.pnl_percentage = Zero

\* C3: whenever the result's cost basis is > 0,
\* pnl_percentage = pnl_amount / cost_basis_jpy * 100, that is
\* pnl_percentage * cost_basis_jpy = pnl_amount * 100.
C3_PercentageOfCost ==
    (PnlReturned /\ Gt(ret.cost_basis_jpy, Zero)) =>
        Mul(ret.pnl_percentage, ret.cost_basis_jpy) = Mul(ret.pnl_amount, Hundred)

\* a fractional percentage has been computed: 190 * 0.11 against a cost of 100
C3_Witness ==
    /\ PnlReturned
    /\ Gt(ret.cost_basis_jpy, Zero)
    /\ args.exchange_rate = Norm(11, 100)
    /\ ret.pnl_percentage = Norm(-791, 10)

\* C4 as stated: whenever the result's cost basis is 0, pnl_percentage is 0,
\* whatever the price and the exchange rate are.
C4_ZeroCostZeroPercentage ==
    (PnlReturned /\ ret.cost_basis_jpy = Zero) => ret.pnl_percentage = Zero

\* C5: calculate_pnl returns a complete record for every price and rate, None
\* included: every field is present, the computed fields are numbers, and for
\* a None price the record is the worst case (home price 0, value 0,
\* pnl_amount = -cost basis, cost basis = avg_cost * shares).
C5_NeverFails ==
    PnlReturned =>
        /\ DOMAIN ret = PnlFields
        /\ ret.ticker = args.ticker
        /\ ret.shares = args.shares
        /\ ret.avg_cost_jpy = args.avg_cost_jpy
        /\ ret.exchange_rate = args.exchange_rate
        /\ \A f \in {"current_price_local", "current_price_jpy", "current_value_jpy",
                     "cost_basis_jpy", "pnl_amount", "pnl_percentage"} :
              IsNumeric(ret[f])
        /\ ~IsNumeric(args.current_price_local) =>
              /\ ret.current_price_jpy = Zero
              /\ ret.current_value_jpy = Zero
              /\ IsRatio(ret.cost_basis_jpy, args.avg_cost_jpy.n * args.shares.n,
                         args.avg_cost_jpy.d * args.shares.d)
              /\ IsRatio(ret.pnl_amount, -(args.avg_cost_jpy.n * args.shares.n),
                         args.avg_cost_jpy.d * args.shares.d)

\* a None price on a position with a positive cost has been answered
C5_Witness ==
    /\ PnlReturned
    /\ args.current_price_local = None
    /\ Gt(args.avg_cost_jpy, Zero)
    /\ ret.pnl_amount = Neg(ret.cost_basis_jpy)

(***************************************************************************)
(* Properties of get_exchange_rate_for_currency                            *)
(***************************************************************************)

\* get_exchange_rate_for_currency has returned
RateReturned == pc = "done" /\ fn = "get_exchange_rate_for_currency"

\* C6 as stated: for every non-home currency whose pair symbol (HKDJPY=X, ...)
\* is in the FX table, the rate returned is the one stored in the table.
C6_TableRateReturned ==
    (RateReturned /\ args.currency # "JPY"
        /\ PairSymbol(args.currency) \in DOMAIN args.exchange_rates) =>
        ret = args.exchange_rates[PairSymbol(args.currency)]

\* C7: the rate is exactly 1 for JPY whatever the table holds; when the pair
\* is absent from the table it is the hard-coded fallback (USD 150, EUR 160,
\* GBP 180, AUD 100, CAD 110, CHF 165, HKD 19, SGD 110, CNY 21, KRW 0.11) and
\* 1 for any other currency; the fallback path never yields a rate <= 0.
C7_HomeAndFallback ==
    RateReturned =>
        LET c == args.currency
        IN  /\ c = "JPY" => ret = Num(1)
            /\ (c # "JPY" /\ PairSymbol(c) \notin DOMAIN args.exchange_rates) =>
                  /\ IsNumeric(ret) /\ ret.n > 0
                  /\ CASE c = "USD" -> IsRatio(ret, 150, 1)
                       [] c = "EUR" -> IsRatio(ret, 160, 1)
                       [] c = "GBP" -> IsRatio(ret, 180, 1)
                       [] c = "AUD" -> IsRatio(ret, 100, 1)
                       [] c = "CAD" -> IsRatio(ret, 110, 1)
                       [] c = "CHF" -> IsRatio(ret, 165, 1)
                       [] c = "HKD" -> IsRatio(ret, 19, 1)
                       [] c = "SGD" -> IsRatio(ret, 110, 1)
                       [] c = "CNY" -> IsRatio(ret, 21, 1)
                       [] c = "KRW" -> IsRatio(ret, 11, 100)
                       [] OTHER     -> IsRatio(ret, 1, 1)

\* an unlisted currency has been answered from a table that holds another pair
C7_Witness ==
    /\ RateReturned
    /\ args.currency = "BRL"
    /\ DOMAIN args.exchange_rates = {"USDJPY=X"}
    /\ ret = Num(1)

(***************************************************************************)
(* Properties of calculate_portfolio_summary                               *)
(***************************************************************************)

\* calculate_portfolio_summary has returned for a table with at least one row
SummaryReturned ==
    pc = "done" /\ fn = "calculate_portfolio_summary" /\ Len(args.pnl_df.rows) > 0

\* the sum of f over the rows of a table, from the head
RECURSIVE RowSum(_, _)
RowSum(rows, f) ==
    IF rows = <<>> THEN Zero ELSE Add(Head(rows)[f], RowSum(Tail(rows), f))

\* C8: for a non-empty table the totals are the sums of the rows' fields:
\* total_pnl_amount = sum of pnl_amount, likewise cost basis and current
\* value, so total_pnl_amount = total_current_value - total_cost_basis.
C8_TotalsAreSums ==
    SummaryReturned =>
        /\ ret.total_pnl_amount_jpy = RowSum(args.pnl_df.rows, "pnl_amount")
        /\ ret.total_cost_basis_jpy = RowSum(args.pnl_df.rows, "cost_basis_jpy")
        /\ ret.total_current_value_jpy = RowSum(args.pnl_df.rows, "current_value_jpy")
        /\ ret.total_pnl_amount_jpy =
              Sub(ret.total_current_value_jpy, ret.total_cost_basis_jpy)

\* two rows with different non-zero pnl_amount have been summed
C8_Witness ==
    /\ SummaryReturned
    /\ Len(args.pnl_df.rows) = 2
    /\ args.pnl_df.rows[1].pnl_amount # Zero
    /\ args.pnl_df.rows[2].pnl_amount # Zero
    /\ args.pnl_df.rows[1].pnl_amount # args.pnl_df.rows[2].pnl_amount
    /\ ret.total_pnl_amount_jpy =
          Add(args.pnl_df.rows[1].pnl_amount, args.pnl_df.rows[2].pnl_amount)

\* the rows whose pnl_amount is strictly positive
ProfitableRows(pnl_df) == {i \in 1..Len(pnl_df) : pnl_df[i].pnl_amount.n > 0}

\* C9: profitable_positions is the number of rows with pnl_amount > 0 (a row
\* at exactly 0 is not profitable), profitable + losing = total, and
\* win_rate = profitable / total * 100, which lies in [0, 100].
C9_WinRate ==
    SummaryReturned =>
        /\ ret.profitable_positions = Cardinality(ProfitableRows(args.pnl_df.rows))
        /\ ret.total_positions = Len(args.pnl_df.rows)
        /\ ret.profitable_positions + ret.losing_positions = ret.total_positions
        /\ IsRatio(ret.win_rate, 100 * ret.profitable_positions, ret.total_positions)
        /\ ~Gt(Zero, ret.win_rate)
        /\ ~Gt(ret.win_rate, Hundred)

\* a table with one profitable row and one row at exactly 0 has been summarised
C9_Witness ==
    /\ SummaryReturned
    /\ Len(args.pnl_df.rows) = 2
    /\ \E i, j \in 1..2 :
          /\ args.pnl_df.rows[i].pnl_amount = Zero
          /\ Gt(args.pnl_df.rows[j].pnl_amount, Zero)
    /\ ret.profitable_positions = 1
    /\ ret.win_rate = Num(50)

\* row i is the first row of the table whose pnl_amount is maximal
FirstMaxRow(pnl_df, i) ==
    /\ \A j \in 1..Len(pnl_df) : ~Gt(pnl_df[j].pnl_amount, pnl_df[i].pnl_amount)
    /\ \A j \in 1..(i - 1) : pnl_df[j].pnl_amount # pnl_df[i].pnl_amount

\* row i is the first row of the table whose pnl_amount is minimal
FirstMinRow(pnl_df, i) ==
    /\ \A j \in 1..Len(pnl_df) : ~Gt(pnl_df[i].pnl_amount, pnl_df[j].pnl_amount)
    /\ \A j \in 1..(i - 1) : pnl_df[j].pnl_amount # pnl_df[i].pnl_amount

\* C10: max_gain_ticker is the ticker of the first row, in input order, with
\* the maximal pnl_amount, and max_loss_ticker the ticker of the first row
\* with the minimal pnl_amount.
C10_ExtremalTickers ==
    SummaryReturned =>
        /\ \E i \in 1..Len(args.pnl_df.rows) :
              /\ FirstMaxRow(args.pnl_df.rows, i)
              /\ ret.max_gain_ticker = args.pnl_df.rows[i].ticker
              /\ ret.max_gain_amount = args.pnl_df.rows[i].pnl_amount
        /\ \E i \in 1..Len(args.pnl_df.rows) :
              /\ FirstMinRow(args.pnl_df.rows, i)
              /\ ret.max_loss_ticker = args.pnl_df.rows[i].ticker
              /\ ret.max_loss_amount = args.pnl_df.rows[i].pnl_amount

\* two rows of different tickers tie for the extreme: the first one is reported
C10_Witness ==
    /\ SummaryReturned
    /\ Len(args.pnl_df.rows) = 2
    /\ args.pnl_df.rows[1].pnl_amount = args.pnl_df.rows[2].pnl_amount
    /\ args.pnl_df.rows[1].ticker # args.pnl_df.rows[2].ticker
    /\ ret.max_gain_ticker = args.pnl_df.rows[1].ticker
    /\ ret.max_loss_ticker = args.pnl_df.rows[1].ticker

\* calculate_portfolio_summary has returned, for any table
SummaryCallReturned == pc = "done" /\ fn = "calculate_portfolio_summary"

\* C11: overall_pnl_percentage = total_pnl_amount / total_cost_basis * 100 when
\* the total cost basis is > 0 and 0 when it is 0; average_position_size =
\* total cost basis / position count, and 0 when there are no positions; both
\* are numbers (no NaN, no infinity), and a table without columns yields {}
\* instead of an error.
C11_GuardedRatios ==
    SummaryCallReturned =>
        IF args.pnl_df.columns # {}
        THEN LET rows       == args.pnl_df.rows
                 total_cost == RowSum(rows, "cost_basis_jpy")
                 total_pnl  == RowSum(rows, "pnl_amount")
             IN  /\ ret # EmptySummary
                 /\ IsNumeric(ret.overall_pnl_percentage)
                 /\ IsNumeric(ret.average_position_size)
                 /\ Gt(total_cost, Zero) =>
                       Mul(ret.overall_pnl_percentage, total_cost) = Mul(total_pnl, Hundred)
                 /\ total_cost = Zero => ret.overall_pnl_percentage = Zero
                 /\ Len(rows) > 0 =>
                       Mul(ret.average_position_size, Num(Len(rows))) = total_cost
                 /\ Len(rows) = 0 => ret.average_position_size = Zero
        ELSE ret = EmptySummary

\* positions of cost 0 with a gain have been summarised: the percentage is 0
C11_Witness ==
    /\ SummaryReturned
    /\ ret.total_cost_basis_jpy = Zero
    /\ Gt(ret.total_pnl_amount_jpy, Zero)
    /\ ret.overall_pnl_percentage = Zero
    /\ ret.average_position_size = Zero

\* C12: on a table with no rows calculate_portfolio_summary does not raise: a
\* table without columns yields the empty summary {}, and an empty table that
\* has the result columns yields a summary whose counts, totals and ratios
\* are all 0 and whose extremal tickers are ''.
C12_EmptyTable ==
    (SummaryCallReturned /\ Len(args.pnl_df.rows) = 0) =>
        IF args.pnl_df.columns = {}
        THEN ret = EmptySummary
        ELSE /\ ret.total_positions = 0
             /\ ret.profitable_positions = 0
             /\ ret.losing_positions = 0
             /\ ret.total_cost_basis_jpy = Zero
             /\ ret.total_current_value_jpy = Zero
             /\ ret.total_pnl_amount_jpy = Zero
             /\ ret.overall_pnl_percentage = Zero
             /\ ret.win_rate = Zero
             /\ ret.average_position_size = Zero
             /\ ret.max_gain_ticker = ""
             /\ ret.max_loss_ticker = ""

\* the empty table that has the result columns has been summarised
C12_Witness ==
    /\ SummaryCallReturned
    /\ args.pnl_df.columns = PnlColumns
    /\ Len(args.pnl_df.rows) = 0
    /\ ret.total_positions = 0
    /\ ret.max_gain_ticker = ""

(***************************************************************************)
(* Properties of the allocation classifier                                 *)
(***************************************************************************)

\* classify_region_by_country has returned
ClassifyReturned == pc = "done" /\ fn = "classify_region_by_country"

\* the country is a string spelling `name` in some letter case, unpadded
Spells(country, name) ==
    country.k = "str" /\ country.text = name /\ ~country.pad

\* C13: every input maps to one of the six regions; a name that equals an
\* enumerated name ignoring letter case maps to that name's region (Japan;
\* United States/USA/US; Canada; the European and the Asia-Pacific names);
\* None, '' and every name the enumeration does not hold map to Other.
C13_RegionByCountry ==
    ClassifyReturned =>
        LET c == args.country
        IN  /\ ret \in Regions
            /\ Spells(c, "JAPAN") => ret = "Japan"
            /\ (\E n \in {"UNITED STATES", "USA", "US"} : Spells(c, n)) => ret = "US"
            /\ Spells(c, "CANADA") => ret = "North America-other"
            /\ (\E n \in european_countries : Spells(c, n)) => ret = "Europe"
            /\ (Spells(c, "GERMANY") \/ Spells(c, "UNITED KINGDOM")) => ret = "Europe"
            /\ (\E n \in asia_pacific_countries : Spells(c, n)) => ret = "Asia-Pacific"
            /\ (Spells(c, "HONG KONG") \/ Spells(c, "AUSTRALIA")) => ret = "Asia-Pacific"
            /\ (c.k = "None" \/ c.text = "") => ret = "Other"
            /\ (c.k = "str" /\ c.text \in {"BRAZIL", "NEW JAPAN", "SOUTH AFRICA"}) =>
                  ret = "Other"

\* a name written in title case ('Hong Kong') has been classified
C13_Witness ==
    /\ ClassifyReturned
    /\ args.country = Str("HONG KONG", "title", FALSE)
    /\ ret = "Asia-Pacific"


(***************************************************************************)
(* C14, C15: get_region_for_ticker                                         *)
(***************************************************************************)

RegionReturned == fn = "get_region_for_ticker" /\ pc = "done"

\* country data is unavailable for the ticker: no mapping, no entry, or a
\* null entry
CountryUnavailable(ticker, ticker_countries) ==
    \/ ticker_countries.k = "None"
    \/ ticker \notin DOMAIN ticker_countries.items
    \/ ticker_countries.items[ticker] = None

\* C14: whenever country data is unavailable for a ticker (no mapping, no
\* entry, or a null entry), its region is the one the ticker-suffix fallback
\* gives
C14_UnavailableUsesSuffix ==
    (RegionReturned /\ CountryUnavailable(args.ticker, args.ticker_countries)) =>
        ret = SuffixRegion(args.ticker)

\* the ticker ends with the suffix
EndsWith(ticker, suffix) ==
    LET chars == TickerChars(ticker)
    IN  /\ Len(chars) >= Len(suffix)
        /\ SubSeq(chars, Len(chars) - Len(suffix) + 1, Len(chars)) = suffix

\* the region of a ticker by its exchange suffix
RegionOfSuffix(ticker) ==
    IF EndsWith(ticker, <<".", "T">>) THEN "Japan"
    ELSE IF \/ EndsWith(ticker, <<".", "A", "S">>) \/ EndsWith(ticker, <<".", "P", "A">>)
            \/ EndsWith(ticker, <<".", "D", "E">>) \/ EndsWith(ticker, <<".", "M", "I">>)
            \/ EndsWith(ticker, <<".", "L">>)
    THEN "Europe"
    ELSE IF EndsWith(ticker, <<".", "A", "X">>) \/ EndsWith(ticker, <<".", "H", "K">>)
    THEN "Asia-Pacific"
    ELSE IF EndsWith(ticker, <<".", "T", "O">>) \/ EndsWith(ticker, <<".", "V">>)
    THEN "North America-other"
    ELSE "US"

\* C15: without a country mapping a ticker is classified by its exchange
\* suffix: .T Japan, .AS/.PA/.DE/.MI/.L Europe, .AX/.HK Asia-Pacific,
\* .TO/.V North America-other, no suffix US
C15_SuffixClasses ==
    (RegionReturned /\ args.ticker_countries = NoDict) =>
        ret = RegionOfSuffix(args.ticker)


(***************************************************************************)
(* C16-C19: calculate_sector_allocation                                    *)
(***************************************************************************)

AllocationReturned == fn = "calculate_sector_allocation" /\ pc = "done"

\* the rows of pnl_df whose ticker resolves to the region
RowsOfRegion(pnl_df, ticker_countries, region) ==
    SelectSeq(pnl_df.rows,
              LAMBDA row : get_region_for_ticker(row.ticker, ticker_countries) = region)

\* the total current value of the PositionResults
TotalCurrentValue(pnl_df) == RowSum(pnl_df.rows, "current_value_jpy")

\* C16: for a non-empty table whose total current value is greater than 0,
\* the allocation_percentage values of the regions returned sum to 100, for
\* every country mapping
C16_AllocationSumsToHundred ==
    (AllocationReturned /\ Len(args.pnl_df.rows) > 0
        /\ Gt(TotalCurrentValue(args.pnl_df), Zero)) =>
        RowSum(ret.rows, "allocation_percentage") = Hundred

\* an allocation over two regions or more with a positive total was returned
C16_Witness ==
    /\ AllocationReturned
    /\ Gt(TotalCurrentValue(args.pnl_df), Zero)
    /\ Len(ret.rows) >= 2
    /\ args.ticker_countries.k = "dict"

\* the row of the region in the table returned is exactly the given share
HasShare(table, region, share) ==
    \E g \in 1..Len(table.rows) :
        /\ table.rows[g].country = region
        /\ table.rows[g].allocation_percentage = share

\* C17: for every region returned, allocation_percentage = region current
\* value / total current value x 100 when the total is greater than 0, and 0
\* for every region when the total is 0; two Japan positions worth 1,000,000
\* and 2,000,000 and one US position worth 3,000,000 give Japan 50 and US 50
C17_AllocationPercentage ==
    AllocationReturned =>
        /\ \A g \in 1..Len(ret.rows) :
              LET value == RowSum(RowsOfRegion(args.pnl_df, args.ticker_countries,
                                               ret.rows[g].country),
                                  "current_value_jpy")
                  total == TotalCurrentValue(args.pnl_df)
              IN  IF Gt(total, Zero)
                  THEN /\ IsNumeric(ret.rows[g].allocation_percentage)
                       /\ Mul(ret.rows[g].allocation_percentage, total) = Mul(value, Hundred)
                  ELSE ret.rows[g].allocation_percentage = Zero
        /\ (args.pnl_df = ScenarioPnlDf /\ args.ticker_countries = ScenarioCountries) =>
              /\ Len(ret.rows) = 2
              /\ HasShare(ret, "Japan", Num(50))
              /\ HasShare(ret, "US", Num(50))

\* the scenario was aggregated: Japan holds 1,000,000 + 2,000,000 and the US
\* 3,000,000
C17_Witness ==
    /\ AllocationReturned
    /\ args.pnl_df = ScenarioPnlDf
    /\ args.ticker_countries = ScenarioCountries
    /\ \E g \in 1..Len(ret.rows) :
          ret.rows[g].country = "Japan" /\ ret.rows[g].current_value_jpy = Num(3000000)
    /\ \E g \in 1..Len(ret.rows) :
          ret.rows[g].country = "US" /\ ret.rows[g].current_value_jpy = Num(3000000)


\* C18: for every region returned, pnl_percentage = region pnl_amount /
\* region cost basis x 100 when the region's cost basis is greater than 0, and
\* 0 whenever the region's cost basis is 0, also when its pnl_amount is not 0;
\* it is never NaN or infinite
C18_RegionPnlPercentage ==
    AllocationReturned =>
        \A g \in 1..Len(ret.rows) :
            LET rows == RowsOfRegion(args.pnl_df, args.ticker_countries, ret.rows[g].country)
                pnl  == RowSum(rows, "pnl_amount")
                cost == RowSum(rows, "cost_basis_jpy")
                pct  == ret.rows[g].pnl_percentage
            IN  /\ IsNumeric(pct)
                /\ IF Gt(cost, Zero) THEN Mul(pct, cost) = Mul(pnl, Hundred)
                                     ELSE pct = Zero


\* the sum of position_count over the region rows
RECURSIVE PositionCountSum(_)
PositionCountSum(rows) ==
    IF rows = <<>> THEN 0 ELSE Head(rows).position_count + PositionCountSum(Tail(rows))

\* C19: the results are partitioned by resolved region: every result falls in
\* exactly one region row; a region row's current value, cost basis and
\* pnl_amount are the sums over the results resolved to it and its
\* position_count is their number; the region sums add up to the portfolio
\* totals and the counts to the number of results; no region row is empty
C19_PartitionByRegion ==
    (AllocationReturned /\ AllocationInputColumns \subseteq args.pnl_df.columns) =>
        LET members(g) == RowsOfRegion(args.pnl_df, args.ticker_countries,
                                       ret.rows[g].country)
        IN  /\ \A g, h \in 1..Len(ret.rows) :
                  ret.rows[g].country = ret.rows[h].country => g = h
            /\ \A i \in 1..Len(args.pnl_df.rows) :
                  \E g \in 1..Len(ret.rows) :
                      ret.rows[g].country =
                          get_region_for_ticker(args.pnl_df.rows[i].ticker,
                                                args.ticker_countries)
            /\ \A g \in 1..Len(ret.rows) :
                  /\ ret.rows[g].position_count = Len(members(g))
                  /\ ret.rows[g].position_count >= 1
                  /\ ret.rows[g].current_value_jpy = RowSum(members(g), "current_value_jpy")
                  /\ ret.rows[g].cost_basis_jpy = RowSum(members(g), "cost_basis_jpy")
                  /\ ret.rows[g].pnl_amount = RowSum(members(g), "pnl_amount")
            /\ RowSum(ret.rows, "current_value_jpy") = RowSum(args.pnl_df.rows, "current_value_jpy")
            /\ RowSum(ret.rows, "cost_basis_jpy") = RowSum(args.pnl_df.rows, "cost_basis_jpy")
            /\ RowSum(ret.rows, "pnl_amount") = RowSum(args.pnl_df.rows, "pnl_amount")
            /\ PositionCountSum(ret.rows) = Len(args.pnl_df.rows)

\* three results were grouped into two regions, one of them holding two
C19_Witness ==
    /\ AllocationReturned
    /\ Len(args.pnl_df.rows) = 3
    /\ Len(ret.rows) = 2
    /\ \E g \in 1..Len(ret.rows) :
          /\ ret.rows[g].position_count = 2
          /\ ret.rows[g].cost_basis_jpy = Num(2300000)
          /\ ret.rows[g].pnl_amount = Num(700000)


(***************************************************************************)
(* C20: calculate_var_cvar                                                 *)
(***************************************************************************)

VarCvarReturned == fn = "calculate_var_cvar" /\ pc = "done"

\* C20: for every return series of 2 points or more the metrics are
\* returned and CVaR_95 <= VaR_95 and CVaR_99 <= VaR_99, VaR_c being the
\* (1-c) empirical quantile and CVaR_c the mean of the returns at or below it
C20_CVaRBelowVaR ==
    (VarCvarReturned /\ Len(args.portfolio_returns) >= 2) =>
        /\ ret.k = "VarMetrics"
        /\ IsNumeric(ret.CVaR_95) /\ IsNumeric(ret.VaR_95)
        /\ IsNumeric(ret.CVaR_99) /\ IsNumeric(ret.VaR_99)
        /\ Le(ret.CVaR_95, ret.VaR_95)
        /\ Le(ret.CVaR_99, ret.VaR_99)

\* a series of distinct returns whose 5% quantile lies strictly between two
\* observations, so that the tail mean is strictly below it
C20_Witness ==
    /\ VarCvarReturned
    /\ Len(args.portfolio_returns) >= 2
    /\ args.method = "linear"
    /\ Gt(ret.VaR_95, ret.CVaR_95)
    /\ Gt(ret.VaR_99, ret.CVaR_99)
    /\ Gt(ret.VaR_99, Norm(-1, 10))


(***************************************************************************)
(* C21, C22, C27: calculate_portfolio_pnl                                  *)
(***************************************************************************)

PortfolioPnlReturned == fn = "calculate_portfolio_pnl" /\ pc = "done"

\* the distinct tickers of the position list
DistinctTickers(portfolio_df) == {portfolio_df[i].Ticker : i \in 1..Len(portfolio_df)}

\* the last occurrence of the ticker in the position list
LastOccurrence(portfolio_df, ticker) ==
    CHOOSE i \in 1..Len(portfolio_df) :
        /\ portfolio_df[i].Ticker = ticker
        /\ \A j \in (i + 1)..Len(portfolio_df) : portfolio_df[j].Ticker # ticker

\* C21: the results hold one entry per distinct ticker: a ticker that occurs
\* more than once in the position list gets a single result, computed from
\* its last occurrence, so there are as many results as distinct tickers
C21_OneResultPerTicker ==
    PortfolioPnlReturned =>
        /\ Len(ret.rows) = Cardinality(DistinctTickers(args.portfolio_df))
        /\ \A g \in 1..Len(ret.rows) :
              LET last == args.portfolio_df[LastOccurrence(args.portfolio_df,
                                                           ret.rows[g].ticker)]
              IN  /\ ret.rows[g].shares = last.Shares
                  /\ ret.rows[g].avg_cost_jpy = last.AvgCostJPY

\* C22: a ticker absent from the price mapping is handled like a ticker
\* whose price is 0: current value 0 and pnl_amount = -cost basis; the other
\* positions keep the value of their own quote, and there is a result for
\* every position
C22_MissingQuote ==
    PortfolioPnlReturned =>
        /\ Len(ret.rows) = Len(args.portfolio_df)
        /\ \A i \in 1..Len(ret.rows) :
              LET row == args.portfolio_df[i]
              IN  /\ ret.rows[i].ticker = row.Ticker
                  /\ ret.rows[i].cost_basis_jpy = Mul(row.Shares, row.AvgCostJPY)
                  /\ IF row.Ticker \notin DOMAIN args.current_prices
                     THEN /\ ret.rows[i].current_price_local = Zero
                          /\ ret.rows[i].current_value_jpy = Zero
                          /\ ret.rows[i].pnl_amount = Neg(ret.rows[i].cost_basis_jpy)
                          /\ ret.rows[i].pnl_percentage =
                                IF ret.rows[i].cost_basis_jpy = Zero THEN Zero
                                                                   ELSE Neg(Hundred)
                     ELSE IsNumeric(args.current_prices[row.Ticker]) =>
                            ret.rows[i].current_value_jpy =
                                Mul(Mul(row.Shares, args.current_prices[row.Ticker]),
                                    ret.rows[i].exchange_rate)

\* a position without a quote was valued next to one with a quote
C22_Witness ==
    /\ PortfolioPnlReturned
    /\ Len(ret.rows) = 2
    /\ ret.rows[1].ticker \notin DOMAIN args.current_prices
    /\ ret.rows[1].current_value_jpy = Zero
    /\ ret.rows[1].pnl_amount = Num(-100)
    /\ ret.rows[2].ticker \in DOMAIN args.current_prices
    /\ Gt(ret.rows[2].current_value_jpy, Zero)

\* C27: a ticker absent from the currency mapping is treated as USD: its
\* result carries currency USD and the USD rate of the FX table, or the USD
\* fallback rate when the table lacks it, whatever its suffix; every result's
\* currency is the one its exchange rate was chosen for
C27_DefaultCurrencyUSD ==
    PortfolioPnlReturned =>
        \A i \in 1..Len(ret.rows) :
            LET ticker == args.portfolio_df[i].Ticker
            IN  /\ ticker \notin DOMAIN args.currency_mapping =>
                      /\ ret.rows[i].currency = "USD"
                      /\ ret.rows[i].exchange_rate =
                            IF "USDJPY=X" \in DOMAIN args.exchange_rates
                            THEN args.exchange_rates["USDJPY=X"]
                            ELSE Num(150)
                /\ ticker \in DOMAIN args.currency_mapping =>
                      ret.rows[i].currency = args.currency_mapping[ticker]
                /\ ret.rows[i].currency = "JPY" => ret.rows[i].exchange_rate = Num(1)

\* a Tokyo ticker without a currency entry was converted at the fetched USD rate
C27_Witness ==
    /\ PortfolioPnlReturned
    /\ \E i \in 1..Len(ret.rows) :
          /\ ret.rows[i].ticker = "7203.T"
          /\ "7203.T" \notin DOMAIN args.currency_mapping
          /\ "USDJPY=X" \in DOMAIN args.exchange_rates
          /\ ret.rows[i].currency = "USD"
          /\ ret.rows[i].exchange_rate = Num(155)


(***************************************************************************)
(* C23: the pipeline functions leave their inputs alone                    *)
(***************************************************************************)

\* C23: a call of calculate_portfolio_pnl, calculate_portfolio_summary or
\* calculate_sector_allocation leaves the objects the caller passed in (the
\* tables and the mappings) as they were: every assignment of the function
\* goes to an object created during the call, so no region column is added
\* to the caller's table; and the same call repeated on the objects the
\* caller holds after the first call returns the same output
C23_SideEffectFree ==
    [][/\ (pc = "call" /\ fn \in RepeatedFunctions) => args' = args
       /\ (pc = "done" /\ pc' = "done") => args'.pnl_df = ret
       /\ pc' = "repeated" => (args' = args /\ ret' = ret)]_vars

\* the allocation of a table into two regions or more was computed twice:
\* the region column went to the copy pnl_df was bound to, not to the
\* caller's table
C23_Witness ==
    /\ pc = "repeated"
    /\ fn = "calculate_sector_allocation"
    /\ Len(args.pnl_df.rows) >= 2
    /\ Len(ret.rows) >= 2
    /\ args.pnl_df.columns = PnlColumns
    /\ LET frame == SectorAllocationFrame(args)
       IN  /\ frame.env["pnl_df"] # CallerObject("pnl_df")
           /\ "country" \in Value(frame, "pnl_df").columns
           /\ "country" \notin frame.store[CallerObject("pnl_df")].columns


(***************************************************************************)
(* C30: calculate_position_sizing_analysis                                 *)
(***************************************************************************)

SizingReturned == fn = "calculate_position_sizing_analysis" /\ pc = "done"

\* C30: after a call on a non-empty table of results the caller's table has
\* the columns it had (no position_weight column), and for a total current
\* value of 0 the analysis is returned with defined numbers, not NaN or
\* infinity
C30_SizingSideEffectFree ==
    (SizingReturned /\ Len(args.pnl_df.rows) > 0) =>
        /\ "position_weight" \notin args.pnl_df.columns
        /\ \A i \in 1..Len(args.pnl_df.rows) :
              "position_weight" \notin DOMAIN args.pnl_df.rows[i]
        /\ TotalCurrentValue(args.pnl_df) = Zero =>
              /\ ret.k = "analysis"
              /\ IsNumeric(ret.max_position_weight)
              /\ IsNumeric(ret.min_position_weight)
              /\ IsNumeric(ret.herfindahl_index)


(***************************************************************************)
(* C28, C29: the dashboard across reruns                                   *)
(***************************************************************************)

DashboardShown ==
    fn = "main_dashboard" /\ pc = "rendered" /\ locals.displayed = "dashboard"

\* C28: across reruns, the portfolio the dashboard shows was loaded from the
\* bytes of the file now in the uploader: bytes that differ from the stored
\* ones reset the stored portfolio and it is loaded again, identical bytes
\* reuse the stored portfolio without loading, and a failed load stores no
\* portfolio so that the next rerun loads again
C28_ShownFromCurrentFile ==
    [][fn = "main_dashboard" =>
         LET file   == args'.uploaded_file
             before == InitialiseSession(session_state)
         IN  /\ locals'.displayed = "dashboard" =>
                   (file # None /\ locals'.portfolio_df = PortfolioOf(file))
             /\ session_state'.portfolio_df # None =>
                   session_state'.portfolio_df = PortfolioOf(session_state'.uploaded_data)
             /\ (file # None /\ before.uploaded_data # file) => locals'.loaded
             /\ (file # None /\ before.uploaded_data = file /\ before.portfolio_df # None) =>
                   (~locals'.loaded /\ locals'.portfolio_df = before.portfolio_df)
             /\ (file # None /\ before.uploaded_data = file /\ before.portfolio_df = None) =>
                   locals'.loaded
             /\ (locals'.loaded /\ ~args'.load_ok) =>
                   (session_state'.portfolio_df = None /\ locals'.displayed = "error")
      ]_vars

\* the portfolio of two.csv is shown from the session without loading, in a
\* session that showed the details of one.csv before
C28_Witness ==
    /\ DashboardShown
    /\ args.uploaded_file = Bytes("two.csv")
    /\ ~locals.loaded
    /\ locals.portfolio_df = PortfolioOf(Bytes("two.csv"))
    /\ session_state.ticker_countries_cache = FetchCountries(<<"AAPL">>, {"AAPL"})

\* C29: the country lookup of the detail view covers the tickers of the
\* portfolio displayed, and the country and region it shows for a ticker are
\* those the allocation view computes for it in the same run
C29_DetailCountriesCurrent ==
    (DashboardShown /\ args.selected_tab = "detail") =>
        LET tickers == locals.portfolio_df.Ticker
        IN  \A i \in 1..Len(tickers) :
                /\ tickers[i] \in DOMAIN session_state.ticker_countries_cache.items
                /\ locals.view[tickers[i]] =
                      ViewOf("allocation", session_state, tickers,
                             args.found)[tickers[i]]


(***************************************************************************)
(* C24-C26: display_risk_analysis                                          *)
(***************************************************************************)

RiskRun == fn = "display_risk_analysis"

\* the portfolio tickers that have a return series
TickersWithReturns == ReturnsColumns(args.tickers, args.historical_data)

\* the engines invoked so far in the run
EnginesCalled == {locals.calls[i].fn : i \in 1..Len(locals.calls)}

\* C24: the risk engine, the VaR/CVaR engine and the stress tester are
\* invoked only when at least 2 portfolio tickers have a return series; with
\* fewer, or without historical data or return series, the run ends with a
\* warning or an error and invokes none of them
C24_EnginesNeedTwoSeries ==
    RiskRun =>
        /\ EnginesCalled # {} => Cardinality(TickersWithReturns) >= 2
        /\ (pc = "done" /\ Cardinality(TickersWithReturns) < 2) =>
              (EnginesCalled = {} /\ locals.message \in {"warning", "error"})

\* the sum of the weights
RECURSIVE WeightSum(_)
WeightSum(weights) ==
    IF weights = <<>> THEN Zero ELSE Add(Head(weights), WeightSum(Tail(weights)))

\* C25: the weights passed to calculate_portfolio_risk and
\* stress_test_scenario are one per return column, in the order of the
\* columns, each the position's current value over the total current value
\* of the positions kept, and they sum to 1
C25_WeightsPrecondition ==
    RiskRun =>
        \A c \in 1..Len(locals.calls) :
            locals.calls[c].fn \in {"calculate_portfolio_risk", "stress_test_scenario"} =>
                LET weights == locals.calls[c].weights
                    columns == locals.calls[c].columns
                    kept    == ValidPnl(args.pnl_df, columns)
                    total   == RowSum(kept, "current_value_jpy")
                IN  /\ Len(weights) = Len(columns)
                    /\ Len(kept) = Len(columns)
                    /\ \A i \in 1..Len(columns) :
                          /\ kept[i].ticker = columns[i]
                          /\ IsNumeric(weights[i])
                          /\ Mul(weights[i], total) = kept[i].current_value_jpy
                    /\ \A i \in 1..Len(weights) : IsNumeric(weights[i])
                    /\ WeightSum(weights) = Num(1)

\* C26: in a run with at least 2 valid tickers the risk metrics are computed
\* first, and the stress test is computed whether or not the VaR/CVaR
\* computation produced a result
C26_StressTestIndependent ==
    (RiskRun /\ pc = "done" /\ Len(locals.valid_tickers) >= 2) =>
        /\ locals.calls[1].fn = "calculate_portfolio_risk"
        /\ "calculate_var_cvar" \in EnginesCalled
        /\ "stress_test_scenario" \in EnginesCalled

====
